---- MODULE Spec2Model ----
(***************************************************************************)
(* Match scoring and cache of the CV-to-job matching backend               *)
(* (src/src/services/matchingService.js), together with the job            *)
(* soft-delete of src/src/controllers/jobController.js and the match       *)
(* collection of src/src/models/match.model.js.                            *)
(*                                                                         *)
(* Time is a discrete clock `now`; every timestamp of the store is a value *)
(* of that clock and cacheTime is counted in the same unit.                *)
(*                                                                         *)
(* The clock unit is of the order of cacheTime (days), so a request is    *)
(* answered within one unit: the clock advances between requests.          *)
(*                                                                         *)
(* A bulk ranking request (findTopCVsForJob / findBestJobsForCV) is a      *)
(* request slot of `ops`.  Its leading reads are one step; every           *)
(* calculateMatchingScore call of its fan-out then takes two steps, one    *)
(* when Match.findOne answers and one when the scoring service answers     *)
(* (the write that follows is issued in the same step: nothing is read     *)
(* between the two).  The continuation of Promise.all runs in the step of  *)
(* the call that settles it.                                               *)
(*                                                                         *)
(* Spec runs one request at a time against a store that is edited and      *)
(* ages; SpecRace runs requests concurrently against a quiet store.        *)
(***************************************************************************)
EXTENDS Integers, Sequences, FiniteSets, TLC

\* ---------------------------------------------------------------- bounds
MaxTime == 2
MaxOps == 2
MaxSlots == 2
MaxEdits == 2

\* the scores the scoring service may answer, and the limits requested
Scores == {0, 1}
Limits == {1, 2}

\* ------------------------------------------------------------- constants
\* match.model.js cacheTime default (604800 s), in clock units
CacheTime == 1

\* CVData.find() / Job.find() return documents in insertion order
CvOrder == <<"c1">>
JobOrder == <<"j1", "j2", "j3">>

CvIds == {CvOrder[k] : k \in 1..Len(CvOrder)}
JobIds == {JobOrder[k] : k \in 1..Len(JobOrder)}

\* the ids the PUT and DELETE requests of a run name
UpdatedJobIds == {"j2"}
DeletedJobIds == {"j3"}

\* details / recommendations texts the scoring service may answer
Texts == {"t1"}

VARIABLES now, cvs, jobs, matches, ops, edits, started

\* the extraction pipeline: the uploaded file, the run of processCVFile and
\* the CVData collection it saves to
VARIABLES file, pipe, cvCollection

\* the search: the parser's input and outputs, the searchCVs request
VARIABLES parsed, search

\* the order in which the calculateMatchingScore calls of a request have
\* settled (history), the batch jobs, and the calls of the pure helpers
\* isTextSufficient and calculateJobMatch
VARIABLES completed, batch, textCheck, jobMatch

matchVars == <<now, cvs, jobs, matches, ops, edits, started>>

pipeVars == <<file, pipe, cvCollection>>

searchVars == <<parsed, search>>

helperVars == <<completed, batch, textCheck, jobMatch>>

vars == <<now, cvs, jobs, matches, ops, edits, started,
          file, pipe, cvCollection, parsed, search,
          completed, batch, textCheck, jobMatch>>

OpIds == 1..MaxSlots

Min(a, b) == IF a < b THEN a ELSE b

\* ------------------------------------------------------------ documents
\* `null`, the answer of Match.findOne when no document matches
NoMatch ==
    [cvId |-> "null", jobId |-> "null", score |-> 0, details |-> "null",
     recommendations |-> "null", cvVersion |-> 0, jobVersion |-> 0,
     updatedAt |-> 0, cacheTime |-> 0]

\* cv.updatedAt || cv.extractedAt: the CV schema declares no updatedAt
CvUpdateTime(cv) == cv.extractedAt

\* job.updatedAt || job.createdAt: updatedAt defaults to Date.now
JobUpdateTime(job) == job.updatedAt

\* ---------------------------------------------------------- isCacheValid
IsCacheValidNoTtl(match, cv, job, t) ==
    IF match = NoMatch THEN FALSE
    ELSE IF match.cvVersion < CvUpdateTime(cv)
            \/ match.jobVersion < JobUpdateTime(job) THEN FALSE
    ELSE TRUE

IsCacheValid(match, cv, job, t) ==
    IF match = NoMatch THEN FALSE
    ELSE IF match.cvVersion < CvUpdateTime(cv)
            \/ match.jobVersion < JobUpdateTime(job) THEN FALSE
    ELSE IF t > match.updatedAt + match.cacheTime THEN FALSE
    ELSE TRUE

\* ------------------------------------------------------ sorting helpers
\* Array.prototype.sort((a, b) => b.score - a.score): stable, descending
RECURSIVE InsertDesc(_, _)
InsertDesc(e, s) ==
    IF s = <<>> THEN <<e>>
    ELSE IF Head(s).score >= e.score THEN <<Head(s)>> \o InsertDesc(e, Tail(s))
    ELSE <<e>> \o s

RECURSIVE SortDesc(_)
SortDesc(s) ==
    IF s = <<>> THEN <<>>
    ELSE InsertDesc(s[Len(s)], SortDesc(SubSeq(s, 1, Len(s) - 1)))

\* Array.prototype.slice(0, limit) for limit >= 0
Slice(s, n) == SubSeq(s, 1, Min(n, Len(s)))

FirstN(s, n) == Slice(s, n)

\* sort(...).slice(0, limit)
TopN(s, n) == Slice(SortDesc(s), n)

\* ------------------------------------------------------- Match queries
\* The match collection is kept as the documents of each (cvId, jobId)
\* pair, in insertion order; a document is named by its pair and its place.
Pairs == CvIds \X JobIds

DocRefs == {<<p, k>> : p \in Pairs, k \in 1..MaxOps}

StoredRefs == {d \in DocRefs : d[2] <= Len(matches[d[1]])}

Doc(d) == matches[d[1]][d[2]]

\* Match.findOne({cvId, jobId}): the first document of the pair, or null (0)
FindOne(cvId, jobId) ==
    IF matches[<<cvId, jobId>>] = <<>> THEN 0 ELSE 1

DocAt(cvId, jobId, k) ==
    IF k = 0 THEN NoMatch ELSE matches[<<cvId, jobId>>][k]

\* Match.find({jobId}) or Match.find({cvId}), .sort({score: -1}).limit(n):
\* every order the store may answer (equal scores come in any order);
\* limit(0) is no limit.
MatchFind(kind, anchor, n) ==
    LET hit == {d \in StoredRefs :
                   IF kind = "topCVs" THEN Doc(d).jobId = anchor
                   ELSE Doc(d).cvId = anchor}
        c == Cardinality(hit)
        sorted == {s \in [1..c -> hit] :
                      /\ \A a, b \in 1..c : a # b => s[a] # s[b]
                      /\ \A a, b \in 1..c :
                            a < b => Doc(s[a]).score >= Doc(s[b]).score}
    IN {IF n = 0 THEN s ELSE SubSeq(s, 1, Min(n, c)) : s \in sorted}

\* --------------------------------------------------- calculateJobMatch
\* what openaiService.calculateJobMatch resolves to: {score, details,
\* recommendations}; it carries no fromCache key
ServiceAnswers ==
    [score : Scores, details : Texts, recommendations : Texts]

\* ------------------------------------------------ calculateMatchingScore
CacheHitResultUntagged(match) ==
    [score |-> match.score, details |-> match.details,
     recommendations |-> match.recommendations]

\* the object returned on a cache hit
CacheHitResult(match) ==
    [score |-> match.score, details |-> match.details,
     recommendations |-> match.recommendations, fromCache |-> TRUE]

\* matchResult.fromCache || false
FromCacheOrFalse(r) ==
    IF "fromCache" \in DOMAIN r THEN r.fromCache ELSE FALSE

UpdatedMatchKeepsVersions(match, r, cv, job, t) ==
    [match EXCEPT !.score = r.score, !.details = r.details,
                  !.recommendations = r.recommendations,
                  !.updatedAt = t]

\* cachedMatch after the six assignments that precede cachedMatch.save()
UpdatedMatch(match, r, cv, job, t) ==
    [match EXCEPT !.score = r.score, !.details = r.details,
                  !.recommendations = r.recommendations,
                  !.cvVersion = CvUpdateTime(cv),
                  !.jobVersion = JobUpdateTime(job),
                  !.updatedAt = t]

\* the document Match.create builds; updatedAt and cacheTime take the
\* schema defaults
CreatedMatch(cvId, jobId, r, cv, job, t) ==
    [cvId |-> cvId, jobId |-> jobId, score |-> r.score, details |-> r.details,
     recommendations |-> r.recommendations,
     cvVersion |-> CvUpdateTime(cv), jobVersion |-> JobUpdateTime(job),
     updatedAt |-> t, cacheTime |-> CacheTime]

NoIndexAllows(cvId, jobId) == TRUE

\* MatchSchema.index({cvId: 1, jobId: 1}, {unique: true}): an insert of a
\* pair that is already stored is rejected
UniqueIndexAllows(cvId, jobId) ==
    matches[<<cvId, jobId>>] = <<>>

\* ------------------------------------------------------- request slots
NoDoc == [none |-> TRUE]
NoResult == [none |-> TRUE]

NewCall ==
    [pc |-> "lookup", doc |-> 0, result |-> NoResult, scored |-> FALSE,
     err |-> "none", scoringCalls |-> 0]

IdleOp ==
    [pc |-> "idle", kind |-> "none", anchor |-> "none", anchorDoc |-> NoDoc,
     limit |-> 0, forceRefresh |-> FALSE, items |-> <<>>, calls |-> <<>>,
     short |-> FALSE, result |-> <<>>, inactiveAtStart |-> {},
     validAtStart |-> 0]

\* CVData.find().select('-rawText')
AllCvs == [k \in 1..Len(CvOrder) |-> [id |-> CvOrder[k], doc |-> cvs[CvOrder[k]]]]

AllJobs == [k \in 1..Len(JobOrder) |-> [id |-> JobOrder[k], doc |-> jobs[JobOrder[k]]]]

EveryJob == AllJobs

\* Job.find({active: true})
ActiveJobs ==
    LET isActive(it) == it.doc.active IN SelectSeq(AllJobs, isActive)

\* the (cv, job) arguments of the i-th calculateMatchingScore call of op
CallCv(op, i) ==
    IF op.kind = "topCVs" THEN op.items[i]
    ELSE [id |-> op.anchor, doc |-> op.anchorDoc]

CallJob(op, i) ==
    IF op.kind = "topCVs" THEN [id |-> op.anchor, doc |-> op.anchorDoc]
    ELSE op.items[i]

\* the loop over cachedMatches that collects validMatches
ValidMatches(kind, cached, items, anchorDoc, t) ==
    LET counter(m) == IF kind = "topCVs" THEN m.cvId ELSE m.jobId
        found(m) == {k \in 1..Len(items) : items[k].id = counter(m)}
        item(m) == items[CHOOSE k \in found(m) : \A h \in found(m) : k <= h]
        isValid(d) ==
            LET m == Doc(d) IN
            /\ found(m) # {}
            /\ IF kind = "topCVs"
               THEN IsCacheValid(m, item(m).doc, anchorDoc, t)
               ELSE IsCacheValid(m, anchorDoc, item(m).doc, t)
        kept == SelectSeq(cached, isValid)
    IN [k \in 1..Len(kept) |->
           [id |-> counter(Doc(kept[k])), score |-> Doc(kept[k]).score,
            matchDetails |-> Doc(kept[k]).details, fromCache |-> TRUE]]

EntriesAsCompleted(op, calls) ==
    LET settled == completed[1]
        rest == {k \in 1..Len(calls) :
                    \A h \in 1..Len(settled) : settled[h] # k}
        order == IF rest = {} THEN settled
                 ELSE Append(settled, CHOOSE k \in rest : TRUE)
    IN [k \in 1..Len(calls) |->
           [id |-> op.items[order[k]].id,
            score |-> calls[order[k]].result.score,
            matchDetails |-> calls[order[k]].result.details,
            fromCache |-> FromCacheOrFalse(calls[order[k]].result)]]

\* the entries the fan-out maps the settled calls to
Entries(op, calls) ==
    [k \in 1..Len(calls) |->
        [id |-> op.items[k].id, score |-> calls[k].result.score,
         matchDetails |-> calls[k].result.details,
         fromCache |-> FromCacheOrFalse(calls[k].result)]]

SettleKeepsFulfilled(op, i, call) ==
    LET calls == [op.calls EXCEPT ![i] = call]
        fulfilled(k) == calls[k].pc = "done"
        kept == SelectSeq([k \in 1..Len(calls) |-> k], fulfilled)
    IN
    IF op.pc = "running"
       /\ \A k \in 1..Len(calls) : calls[k].pc \in {"done", "failed"}
    THEN [op EXCEPT !.calls = calls, !.pc = "returned",
                    !.result = TopN([k \in 1..Len(kept) |->
                                       Entries(op, calls)[kept[k]]],
                                    op.limit)]
    ELSE [op EXCEPT !.calls = calls]

\* op after its i-th call became `call`: Promise.all rejects with the first
\* rejection and resolves with the last fulfilment, and then the list is
\* sorted and cut
Settle(op, i, call) ==
    LET calls == [op.calls EXCEPT ![i] = call] IN
    IF op.pc = "running" /\ call.pc = "failed"
    THEN [op EXCEPT !.calls = calls, !.pc = "failed"]
    ELSE IF op.pc = "running" /\ \A k \in 1..Len(calls) : calls[k].pc = "done"
    THEN [op EXCEPT !.calls = calls, !.pc = "returned",
                    !.result = TopN(Entries(op, calls), op.limit)]
    ELSE [op EXCEPT !.calls = calls]

\* history kept with a request: the valid cached matches the store held for
\* its anchor and its counterparts when it read the store
ValidCached(kind, anchor, items, anchorDoc, t) ==
    {d \in StoredRefs :
        LET m == Doc(d) IN
        \E k \in 1..Len(items) :
            IF kind = "topCVs"
            THEN /\ m.jobId = anchor /\ m.cvId = items[k].id
                 /\ IsCacheValid(m, items[k].doc, anchorDoc, t)
            ELSE /\ m.cvId = anchor /\ m.jobId = items[k].id
                 /\ IsCacheValid(m, anchorDoc, items[k].doc, t)}

\* ------------------------------------------------- extraction pipeline
\* pdfService.isTextSufficient thresholds: minimum length of the cleaned
\* text, and the minimum alphanumeric ratio 0.3 as a fraction
MinCleanLength == 50
MinRatioNum == 3
MinRatioDen == 10

\* the texts pdf-parse may answer, each by the four measures the pipeline
\* takes of it: text.length, text.trim().length, the length after
\* whitespace runs are collapsed, and the count of [a-zA-Z0-9] characters
PdfTexts ==
    { [raw |-> 0,   trimmed |-> 0,   clean |-> 0,   alnum |-> 0],
      [raw |-> 3,   trimmed |-> 0,   clean |-> 0,   alnum |-> 0],
      [raw |-> 49,  trimmed |-> 49,  clean |-> 49,  alnum |-> 49],
      [raw |-> 52,  trimmed |-> 50,  clean |-> 50,  alnum |-> 15],
      [raw |-> 50,  trimmed |-> 50,  clean |-> 50,  alnum |-> 14],
      [raw |-> 120, trimmed |-> 110, clean |-> 100, alnum |-> 10],
      [raw |-> 100, trimmed |-> 100, clean |-> 100, alnum |-> 80] }

NoText == [raw |-> 0, trimmed |-> 0, clean |-> 0, alnum |-> 0]

\* a text as its runs of characters of one class: [a-zA-Z0-9], whitespace
\* (what \s and trim() match) and any other character
CharClasses == {"alnum", "space", "other"}

RunLengths == {1, 3, 14, 15, 34, 35}

MaxTextRuns == 3

SampleTexts ==
    UNION {[1..n -> [class : CharClasses, n : RunLengths]] :
              n \in 0..MaxTextRuns}

\* text.trim(): the leading runs of whitespace are dropped, then the
\* trailing ones
RECURSIVE TrimStartRuns(_)
TrimStartRuns(runs) ==
    IF runs # <<>> /\ Head(runs).class = "space"
    THEN TrimStartRuns(Tail(runs)) ELSE runs

RECURSIVE TrimEndRuns(_)
TrimEndRuns(runs) ==
    IF runs # <<>> /\ runs[Len(runs)].class = "space"
    THEN TrimEndRuns(SubSeq(runs, 1, Len(runs) - 1)) ELSE runs

TrimRuns(runs) == TrimEndRuns(TrimStartRuns(runs))

\* the number of characters of a text
RECURSIVE RunsLength(_)
RunsLength(runs) ==
    IF runs = <<>> THEN 0 ELSE Head(runs).n + RunsLength(Tail(runs))

\* .replace(/\s+/g, ' '): every maximal stretch of whitespace becomes one
\* space; `afterSpace` tells that the run before was whitespace
RECURSIVE CollapseRuns(_, _)
CollapseRuns(runs, afterSpace) ==
    IF runs = <<>> THEN <<>>
    ELSE IF Head(runs).class = "space"
    THEN (IF afterSpace THEN <<>> ELSE <<[class |-> "space", n |-> 1]>>)
         \o CollapseRuns(Tail(runs), TRUE)
    ELSE <<Head(runs)>> \o CollapseRuns(Tail(runs), FALSE)

\* (cleanText.match(/[a-zA-Z0-9]/g) || []).length
RECURSIVE AlphanumericCount(_)
AlphanumericCount(runs) ==
    IF runs = <<>> THEN 0
    ELSE (IF Head(runs).class = "alnum" THEN Head(runs).n ELSE 0)
         + AlphanumericCount(Tail(runs))

\* the measures isTextSufficient and processCVFile take of a text
Measure(runs) ==
    LET cleanText == CollapseRuns(TrimRuns(runs), FALSE)
    IN [raw |-> RunsLength(runs), trimmed |-> RunsLength(TrimRuns(runs)),
        clean |-> RunsLength(cleanText),
        alnum |-> AlphanumericCount(cleanText)]

AtMostMinLength(text) == text.clean <= MinCleanLength

\* pdfService.isTextSufficient
IsToShort(text) == text.clean < MinCleanLength

HasLowAlphanumericRatio(text) ==
    MinRatioDen * text.alnum < MinRatioNum * text.clean

AlwaysSufficient(text) == TRUE

IsTextSufficient(text) ==
    IF text.raw = 0 \/ text.trimmed = 0
    THEN FALSE
    ELSE ~(IsToShort(text) \/ HasLowAlphanumericRatio(text))

\* extractedText && extractedText.trim().length > 0
HasTrimmedText(text) == text.raw # 0 /\ text.trimmed > 0

\* what the extraction client answers after cvDataSchema.parse: the fields
\* the searchable text is built from
StructuredData ==
    [summary : {"", "s1"}, skills : {"k1", "k2"}]

NoStructured == [summary |-> "", skills |-> ""]

\* the vectors the embedding client may answer
Vectors == {<<1, 0>>, <<0, 1>>, <<1, 1>>, <<-1, 0>>, <<-1, 1>>}

NoEmbedding == <<>>

\* CVDataSchema.methods.generateSearchableText: the parts that are not
\* empty, joined
GenerateSearchableText(doc) ==
    IF doc.summary = "" THEN <<doc.skills>> ELSE <<doc.summary, doc.skills>>

SummaryAsInput(doc) == <<doc.summary>>

\* the text processCVFile hands to getEmbeddings
EmbeddingInput(doc) == GenerateSearchableText(doc)

\* new CVData({fileName, ...structuredData, rawText, extractionMethod})
NewCVData(structured, text, method) ==
    [summary |-> structured.summary, skills |-> structured.skills,
     rawText |-> text, extractionMethod |-> method,
     embedding |-> NoEmbedding, embeddedText |-> <<>>,
     searchableText |-> <<>>]

NoCVData == NewCVData(NoStructured, NoText, "text")

\* pre('save'): searchableText is regenerated
PreSave(doc) == [doc EXCEPT !.searchableText = GenerateSearchableText(doc)]

IdlePipe ==
    [pc |-> "idle", text |-> NoText, method |-> "text", images |-> 0,
     structured |-> NoStructured, doc |-> NoCVData, err |-> "none",
     fileRead |-> FALSE, sufficient |-> FALSE, visionTried |-> FALSE,
     visionOk |-> FALSE, textCalls |-> 0, embedOk |-> FALSE,
     unlinkTried |-> FALSE, unlinkFailed |-> FALSE, savedAt |-> 0,
     storeAtStart |-> 0, invalidOutput |-> FALSE,
     visionCalls |-> 0, embedCalls |-> 0]

\* ---------------------------------------------------------------- search
NotParsed == [done |-> FALSE]

IdleSearch == [pc |-> "idle"]

\* ------------------------------------------------------ batches, helpers
NoneCompleted == [o \in OpIds |-> <<>>]

IdleBatch == [pc |-> "idle"]

NotChecked == [done |-> FALSE]

NotMatched == [done |-> FALSE]

\* ------------------------------------------------------------------ Init
Init ==
    /\ now = 0
    /\ cvs = [c \in CvIds |-> [extractedAt |-> 0]]
    /\ jobs = [j \in JobIds |-> [active |-> TRUE, updatedAt |-> 0]]
    /\ matches = [p \in Pairs |-> <<>>]
    /\ ops = [o \in OpIds |-> IdleOp]
    /\ edits = 0
    /\ started = 0
    /\ file = "none"
    /\ pipe = IdlePipe
    /\ cvCollection = <<>>
    /\ parsed = NotParsed
    /\ search = IdleSearch
    /\ completed = NoneCompleted
    /\ batch = IdleBatch
    /\ textCheck = NotChecked
    /\ jobMatch = NotMatched

\* --------------------------------------------------------- bulk ranking
\* findTopCVsForJob / findBestJobsForCV up to the fan-out: the reads, the
\* cached short-circuit, and the issue of one calculateMatchingScore call
\* per counterpart
Bulk(o, kind, anchor, limit, forceRefresh) ==
    /\ ops[o].pc = "idle"
    /\ \A p \in OpIds : p < o => ops[p].pc # "idle"
    /\ started < MaxOps
    /\ started' = started + 1
    /\ LET anchorDoc == IF kind = "topCVs" THEN jobs[anchor] ELSE cvs[anchor]
           items == IF kind = "topCVs" THEN AllCvs ELSE ActiveJobs
           fresh == [IdleOp EXCEPT !.kind = kind, !.anchor = anchor,
                                     !.anchorDoc = anchorDoc, !.limit = limit,
                                     !.forceRefresh = forceRefresh,
                                     !.items = items,
                                     !.inactiveAtStart =
                                         {j \in JobIds : ~jobs[j].active},
                                     !.validAtStart = Cardinality(
                                         ValidCached(kind, anchor, items,
                                                     anchorDoc, now))]
       IN \E cached \in MatchFind(kind, anchor, Len(items)) :
            LET valid == ValidMatches(kind, cached, items, anchorDoc, now)
                enough == /\ ~forceRefresh
                          /\ Len(cached) > 0
                          /\ Len(valid) >= limit
            IN ops' = [ops EXCEPT ![o] =
                 IF enough
                 THEN [fresh EXCEPT !.pc = "returned", !.short = TRUE,
                                      !.result = TopN(valid, limit)]
                 ELSE IF items = <<>>
                 THEN [fresh EXCEPT !.pc = "returned"]
                 ELSE [fresh EXCEPT !.pc = "running",
                                      !.calls = [k \in 1..Len(items) |-> NewCall]]]
    /\ UNCHANGED <<now, cvs, jobs, matches, edits>>

FindTopCVsForJob(o) ==
    \E jobId \in JobIds, limit \in Limits, forceRefresh \in BOOLEAN :
        Bulk(o, "topCVs", jobId, limit, forceRefresh)

FindBestJobsForCV(o) ==
    \E cvId \in CvIds, limit \in Limits, forceRefresh \in BOOLEAN :
        Bulk(o, "bestJobs", cvId, limit, forceRefresh)

\* ------------------------------------------------ calculateMatchingScore
\* Match.findOne answers (or rejects); a valid cached match is returned
CacheLookup(o, i) ==
    LET op == ops[o]
        call == op.calls[i]
        cv == CallCv(op, i)
        job == CallJob(op, i)
        k == FindOne(cv.id, job.id)
    IN
    /\ call.pc = "lookup"
    /\ ops' = [ops EXCEPT ![o] =
          IF IsCacheValid(DocAt(cv.id, job.id, k), cv.doc, job.doc, now)
          THEN Settle(op, i, [call EXCEPT !.pc = "done",
                     !.result = CacheHitResult(DocAt(cv.id, job.id, k))])
          ELSE Settle(op, i, [call EXCEPT !.pc = "miss", !.doc = k])]
    /\ UNCHANGED <<now, cvs, jobs, matches, edits, started>>

\* openaiService.calculateJobMatch answers (or rejects) and the result is
\* stored: cachedMatch.save() when findOne had found a document,
\* Match.create otherwise; schema validation or the unique index may
\* reject the write
ScoreAndStore(o, i) ==
    LET op == ops[o]
        call == op.calls[i]
        cv == CallCv(op, i)
        job == CallJob(op, i)
        fail(e, s) == [call EXCEPT !.pc = "failed", !.err = e, !.scored = s,
                                   !.scoringCalls = @ + 1]
    IN
    /\ call.pc = "miss"
    /\ \E r \in ServiceAnswers :
            /\
               LET done == [call EXCEPT !.pc = "done", !.scored = TRUE,
                                        !.result = r, !.scoringCalls = @ + 1]
               IN
               IF call.doc # 0
               THEN /\ matches' = [matches EXCEPT ![<<cv.id, job.id>>][call.doc] =
                                      UpdatedMatch(@, r, cv.doc, job.doc, now)]
                    /\ ops' = [ops EXCEPT ![o] = Settle(op, i, done)]
               ELSE IF UniqueIndexAllows(cv.id, job.id)
               THEN /\ matches' = [matches EXCEPT ![<<cv.id, job.id>>] = Append(@,
                                      CreatedMatch(cv.id, job.id, r, cv.doc, job.doc, now))]
                    /\ ops' = [ops EXCEPT ![o] = Settle(op, i, done)]
               ELSE /\ ops' = [ops EXCEPT ![o] = Settle(op, i, fail("duplicate", TRUE))]
                    /\ UNCHANGED matches
    /\ UNCHANGED <<now, cvs, jobs, edits, started>>

\* the request is answered (the list, or the error passed to next()), and
\* none of its calls is still in flight
Respond(o) ==
    /\ ops[o].pc \in {"returned", "failed"}
    /\ \A k \in 1..Len(ops[o].calls) : ops[o].calls[k].pc \in {"done", "failed"}
    /\ ops' = [ops EXCEPT ![o] = IdleOp]
    /\ UNCHANGED <<now, cvs, jobs, matches, edits, started>>

\* ------------------------------------------------------------ the store
\* JobController.updateJob: Job.findByIdAndUpdate(id, {..., updatedAt: new Date()})
UpdateJob(j) ==
    /\ edits < MaxEdits
    /\ edits' = edits + 1
    /\ jobs' = [jobs EXCEPT ![j].updatedAt = now]
    /\ UNCHANGED <<now, cvs, matches, ops, started>>

\* JobController.deleteJob: Job.findByIdAndUpdate(id, {active: false, updatedAt: new Date()})
DeleteJob(j) ==
    /\ edits < MaxEdits
    /\ edits' = edits + 1
    /\ jobs' = [jobs EXCEPT ![j] = [active |-> FALSE, updatedAt |-> now]]
    /\ UNCHANGED <<now, cvs, matches, ops, started>>

\* a CV document is written to the store again with a later timestamp
\* (cv.updatedAt || cv.extractedAt is the time the matching service reads;
\* no handler of the service rewrites it, the write comes from outside)
TouchCV(c) ==
    /\ edits < MaxEdits
    /\ edits' = edits + 1
    /\ cvs' = [cvs EXCEPT ![c].extractedAt = now]
    /\ UNCHANGED <<now, jobs, matches, ops, started>>

\* the wall clock (new Date()) advances
Tick ==
    /\ now < MaxTime
    /\ \A o \in OpIds : ops[o].pc = "idle"
    /\ now' = now + 1
    /\ UNCHANGED <<cvs, jobs, matches, ops, edits, started>>

\* one request at a time
Next ==
    /\ \/ FindTopCVsForJob(1)
       \/ FindBestJobsForCV(1)
       \/ \E o \in OpIds : \E i \in 1..Len(ops[o].calls) : CacheLookup(o, i)
       \/ \E o \in OpIds : \E i \in 1..Len(ops[o].calls) : ScoreAndStore(o, i)
       \/ \E o \in OpIds : Respond(o)
       \/ \E j \in UpdatedJobIds : UpdateJob(j)
       \/ \E j \in DeletedJobIds : DeleteJob(j)
       \/ \E c \in CvIds : TouchCV(c)
       \/ Tick
    /\ UNCHANGED <<pipeVars, searchVars, helperVars>>

Spec == Init /\ [][Next]_vars

\* concurrent requests, quiet store
NextRace ==
    /\ \/ \E o \in OpIds : FindTopCVsForJob(o)
       \/ \E o \in OpIds : FindBestJobsForCV(o)
       \/ \E o \in OpIds : \E i \in 1..Len(ops[o].calls) : CacheLookup(o, i)
       \/ \E o \in OpIds : \E i \in 1..Len(ops[o].calls) : ScoreAndStore(o, i)
       \/ \E o \in OpIds : Respond(o)
    /\ UNCHANGED <<pipeVars, searchVars, helperVars>>

SpecRace == Init /\ [][NextRace]_vars

\* ================================================== extraction pipeline
\* CVExtractionService.processCVFile, one step per awaited call.  An error
\* thrown at any step takes the run to the catch block with that error.
MaxRuns == 2

Thrown(p, e) == [p EXCEPT !.pc = "catch", !.err = e]

\* the upload lands a file (or the path names none) and processCVFile starts
StartPipeline ==
    /\ pipe.pc = "idle"
    /\ Len(cvCollection) < MaxRuns
    /\ \E f \in {"present", "missing"} : file' = f
    /\ pipe' = [IdlePipe EXCEPT !.pc = "extractText",
                                !.storeAtStart = Len(cvCollection)]
    /\ UNCHANGED <<cvCollection, matchVars, searchVars,
                 helperVars>>

\* step 1, pdfService.extractText, and step 2, the sufficiency check
ExtractText ==
    /\ pipe.pc = "extractText"
    /\ IF file # "present"
       THEN pipe' = Thrown(pipe, "notFound")
       ELSE \/ pipe' = Thrown(pipe, "unreadable")
            \/ \E text \in PdfTexts :
                 pipe' = [pipe EXCEPT
                            !.text = text, !.fileRead = TRUE,
                            !.sufficient = IsTextSufficient(text),
                            !.pc = IF IsTextSufficient(text)
                                   THEN "textMode" ELSE "images"]
    /\ UNCHANGED <<file, cvCollection, matchVars, searchVars,
                 helperVars>>

VisionFailedNoFallback(p) == Thrown(p, "bothFailed")

\* catch (visionError): text mode when the trimmed text is not empty
VisionFailed(p) ==
    IF HasTrimmedText(p.text)
    THEN [p EXCEPT !.pc = "textFallback"]
    ELSE Thrown(p, "bothFailed")

\* pdfService.extractImages and the imageBuffers.length === 0 test
ExtractImages ==
    /\ pipe.pc = "images"
    /\ \/ pipe' = VisionFailed(pipe)
       \/ \E n \in 0..2 :
            pipe' = IF n = 0
                    THEN VisionFailed([pipe EXCEPT !.images = n])
                    ELSE [pipe EXCEPT !.images = n, !.pc = "vision"]
    /\ UNCHANGED <<file, cvCollection, matchVars, searchVars,
                 helperVars>>

\* openaiService.extractCVDataFromImages: the call, JSON.parse and
\* cvDataSchema.parse; whatever it throws is caught as visionError
ExtractCVDataFromImages ==
    /\ pipe.pc = "vision"
    /\ LET tried == [pipe EXCEPT !.visionTried = TRUE,
                                 !.visionCalls = @ + 1] IN
       \/ \E e \in {"api", "validation"} :
            pipe' = VisionFailed([tried EXCEPT
                                    !.err = e,
                                    !.invalidOutput = (e = "validation")])
       \/ \E d \in StructuredData :
            pipe' = [tried EXCEPT !.structured = d, !.visionOk = TRUE,
                                  !.method = "vision", !.err = "none",
                                  !.pc = "embed"]
    /\ UNCHANGED <<file, cvCollection, matchVars, searchVars,
                 helperVars>>

\* openaiService.extractCVData on the sufficient-text branch and on the
\* fallback branch
ExtractCVData ==
    /\ pipe.pc \in {"textMode", "textFallback"}
    /\ LET called == [pipe EXCEPT !.textCalls = @ + 1] IN
       \/ \E e \in {"api", "validation"} :
            pipe' = Thrown([called EXCEPT
                              !.invalidOutput = @ \/ (e = "validation")], e)
       \/ \E d \in StructuredData :
            pipe' = [called EXCEPT
                       !.structured = d, !.err = "none", !.pc = "embed",
                       !.method = IF pipe.pc = "textMode"
                                  THEN "text" ELSE "text_fallback"]
    /\ UNCHANGED <<file, cvCollection, matchVars, searchVars,
                 helperVars>>

\* steps 3 and 4: the document is built and its searchable text embedded
GetEmbeddings ==
    /\ pipe.pc = "embed"
    /\ LET doc == NewCVData(pipe.structured, pipe.text, pipe.method)
           called == [pipe EXCEPT !.embedCalls = @ + 1] IN
       \/ pipe' = Thrown([called EXCEPT !.doc = doc], "embedding")
       \/ \E v \in Vectors :
            pipe' = [called EXCEPT
                       !.doc = [doc EXCEPT !.embedding = v,
                                           !.embeddedText = EmbeddingInput(doc)],
                       !.embedOk = TRUE, !.pc = "save"]
    /\ UNCHANGED <<file, cvCollection, matchVars, searchVars,
                 helperVars>>

\* step 5: cvData.save()
SaveCVData ==
    /\ pipe.pc = "save"
    /\ \/ /\ pipe' = Thrown(pipe, "save")
          /\ UNCHANGED cvCollection
       \/ /\ cvCollection' = Append(cvCollection, PreSave(pipe.doc))
          /\ pipe' = [pipe EXCEPT !.pc = "unlink",
                                  !.savedAt = Len(cvCollection) + 1]
    /\ UNCHANGED <<file, matchVars, searchVars,
                 helperVars>>

\* step 6: fs.promises.unlink on the success path; a failure is logged
UnlinkAfterSave ==
    /\ pipe.pc = "unlink"
    /\ \/ /\ file' = "deleted"
          /\ pipe' = [pipe EXCEPT !.pc = "returned", !.unlinkTried = TRUE]
       \/ /\ file' = file
          /\ pipe' = [pipe EXCEPT !.pc = "returned", !.unlinkTried = TRUE,
                                  !.unlinkFailed = TRUE]
    /\ UNCHANGED <<cvCollection, matchVars, searchVars,
                 helperVars>>

RethrowWithoutUnlink ==
    /\ pipe.pc = "catch"
    /\ file' = file
    /\ pipe' = [pipe EXCEPT !.pc = "thrown"]
    /\ UNCHANGED <<cvCollection, matchVars, searchVars,
                 helperVars>>

\* the catch block: unlink when fs.existsSync(filePath), then rethrow
UnlinkAfterError ==
    /\ pipe.pc = "catch"
    /\ IF file = "present"
       THEN \/ /\ file' = "deleted"
               /\ pipe' = [pipe EXCEPT !.pc = "thrown", !.unlinkTried = TRUE]
            \/ /\ file' = file
               /\ pipe' = [pipe EXCEPT !.pc = "thrown", !.unlinkTried = TRUE,
                                       !.unlinkFailed = TRUE]
       ELSE /\ file' = file
            /\ pipe' = [pipe EXCEPT !.pc = "thrown"]
    /\ UNCHANGED <<cvCollection, matchVars, searchVars,
                 helperVars>>

\* the controller has answered; the next upload may start
PipelineDone ==
    /\ pipe.pc \in {"returned", "thrown"}
    /\ pipe' = IdlePipe
    /\ file' = "none"
    /\ UNCHANGED <<cvCollection, matchVars, searchVars,
                 helperVars>>

NextPipe ==
    \/ StartPipeline
    \/ ExtractText
    \/ ExtractImages
    \/ ExtractCVDataFromImages
    \/ ExtractCVData
    \/ GetEmbeddings
    \/ SaveCVData
    \/ UnlinkAfterSave
    \/ UnlinkAfterError
    \/ PipelineDone

SpecPipe == Init /\ [][NextPipe]_vars

\* ========================================================= query parser
\* OpenAIService.parseSearchQuery.  A query string is a sequence of
\* symbols: a symbol is a whole word (a maximal run of \w characters), one
\* whitespace character, or one of the punctuation characters below.  The
\* words of the vocabulary contain none of the parser's keywords as a
\* proper part, so every regular expression of the parser matches whole
\* symbols.
Space == " "

Punctuation == {".", ",", ">"}

DigitWords == {"2", "3", "5"}

IsWord(c) == c # "" /\ c # Space /\ c \notin Punctuation

\* the i-th symbol, "" beyond the ends of the string
At(q, i) == IF i \in 1..Len(q) THEN q[i] ELSE ""

\* the /i flag, on the words of the vocabulary that have capitals
Lower(w) ==
    CASE w = "GPA" -> "gpa"
      [] w = "Find" -> "find"
      [] w = "From" -> "from"
      [] w = "Worked" -> "worked"
      [] OTHER -> w

\* \s+ from position i: the position after the whitespace run, 0 when
\* there is no whitespace at i
RECURSIVE SkipSpaces(_, _)
SkipSpaces(q, i) == IF At(q, i) = Space THEN SkipSpaces(q, i + 1) ELSE i

AfterSpaces(q, i) == IF i > 0 /\ At(q, i) = Space THEN SkipSpaces(q, i) ELSE 0

\* String.prototype.trim
RECURSIVE TrimEnd(_)
TrimEnd(q) ==
    IF q # <<>> /\ q[Len(q)] = Space
    THEN TrimEnd(SubSeq(q, 1, Len(q) - 1)) ELSE q

Trim(q) == TrimEnd(SubSeq(q, SkipSpaces(q, 1), Len(q)))

\* replace(/\s+/g, ' ')
RECURSIVE CollapseSpaces(_)
CollapseSpaces(q) ==
    IF q = <<>> THEN <<>>
    ELSE IF q[1] = Space
    THEN <<Space>> \o CollapseSpaces(SubSeq(q, SkipSpaces(q, 1), Len(q)))
    ELSE <<q[1]>> \o CollapseSpaces(Tail(q))

\* String.prototype.indexOf, 1-based, 0 when absent
IndexOf(q, sub) ==
    LET at == {i \in 1..(Len(q) - Len(sub) + 1) :
                  SubSeq(q, i, i + Len(sub) - 1) = sub}
    IN IF at = {} THEN 0 ELSE CHOOSE i \in at : \A k \in at : i <= k

KeepAll(q, sub) == q

\* semanticQuery.replace(match[0], ''): the first occurrence is removed
ReplaceFirst(q, sub) ==
    LET i == IndexOf(q, sub)
    IN IF i = 0 THEN q
       ELSE SubSeq(q, 1, i - 1) \o SubSeq(q, i + Len(sub), Len(q))

\* the least element of a set of positions, 0 for the empty set
Least(S) == IF S = {} THEN 0 ELSE CHOOSE i \in S : \A k \in S : i <= k

NoRegexMatch == [found |-> FALSE]

RegexMatch(q, i, j, a, b) ==
    [found |-> TRUE, whole |-> SubSeq(q, i, j), group |-> SubSeq(q, a, b),
     last |-> j]

\* [\d.]+ from position i: the last position of the run, i - 1 when empty
RECURSIVE NumberRunEnd(_, _)
NumberRunEnd(q, i) ==
    IF At(q, i) \in DigitWords \cup {"."}
    THEN NumberRunEnd(q, i + 1) ELSE i - 1

\* /gpa\s+(above|over|greater than|>)\s+([\d.]+)/i anchored at i: the
\* record of the match, NoRegexMatch when there is none
GpaMatchAt(q, i) ==
    LET a == AfterSpaces(q, i + 1)
        b == IF Lower(At(q, a)) \in {"above", "over"} \/ At(q, a) = ">"
             THEN a + 1
             ELSE IF /\ Lower(At(q, a)) = "greater"
                     /\ At(q, a + 1) = Space
                     /\ Lower(At(q, a + 2)) = "than"
             THEN a + 3
             ELSE 0
        c == AfterSpaces(q, b)
        e == NumberRunEnd(q, c)
    IN IF Lower(At(q, i)) = "gpa" /\ a > 0 /\ b > 0 /\ c > 0 /\ e >= c
       THEN RegexMatch(q, i, e, c, e)
       ELSE NoRegexMatch

\* query.match(regex): the leftmost match
FirstMatch(matchAt) ==
    LET i == Least({k \in 1..Len(matchAt) : matchAt[k].found})
    IN IF i = 0 THEN NoRegexMatch ELSE matchAt[i]

\* parseFloat of a [\d.]+ run, in tenths; "NaN" when no number leads it
DigitValue(d) == CASE d = "2" -> 2 [] d = "3" -> 3 [] d = "5" -> 5

ParseFloat(r) ==
    IF At(r, 1) \in DigitWords
    THEN IF At(r, 2) = "." /\ At(r, 3) \in DigitWords
         THEN 10 * DigitValue(r[1]) + DigitValue(r[3])
         ELSE 10 * DigitValue(r[1])
    ELSE IF At(r, 1) = "." /\ At(r, 2) \in DigitWords
    THEN DigitValue(r[2])
    ELSE "NaN"

\* /work(?:ed)?\s+(?:in|at|for)\s+(\w+)/i anchored at i
CompanyMatchAt(q, i) ==
    LET a == AfterSpaces(q, i + 1)
        b == AfterSpaces(q, a + 1)
    IN IF /\ Lower(At(q, i)) \in {"work", "worked"}
          /\ a > 0 /\ Lower(At(q, a)) \in {"in", "at", "for"}
          /\ b > 0 /\ IsWord(At(q, b))
       THEN RegexMatch(q, i, b, b, b)
       ELSE NoRegexMatch

\* (\w+(?:\s+\w+)*?)(?:\s+with|\s+and|$) with the words captured so far
\* running from a to w: the shortest word sequence that reaches one of the
\* boundaries
RECURSIVE UniversityScan(_, _, _, _)
UniversityScan(q, i, a, w) ==
    LET n == AfterSpaces(q, w + 1)
    IN IF n > 0 /\ Lower(At(q, n)) \in {"with", "and"}
       THEN RegexMatch(q, i, n, a, w)
       ELSE IF w = Len(q) THEN RegexMatch(q, i, w, a, w)
       ELSE IF n > 0 /\ IsWord(At(q, n)) THEN UniversityScan(q, i, a, n)
       ELSE NoRegexMatch

\* /from\s+(\w+(?:\s+\w+)*?)(?:\s+with|\s+and|$)/i anchored at i
UniversityMatchAt(q, i) ==
    LET a == AfterSpaces(q, i + 1)
    IN IF Lower(At(q, i)) = "from" /\ a > 0 /\ IsWord(At(q, a))
       THEN UniversityScan(q, i, a, a)
       ELSE NoRegexMatch

\* [^,.]+ from position i: the last position of the run, i - 1 when empty
RECURSIVE PhraseRunEnd(_, _)
PhraseRunEnd(q, i) ==
    IF At(q, i) # "" /\ At(q, i) \notin {",", "."}
    THEN PhraseRunEnd(q, i + 1) ELSE i - 1

\* the position the keyword (?:experience in|skilled in|knows|familiar with)
\* ends at when it starts at i, 0 when none starts there
SkillKeywordEnd(q, i) ==
    IF Lower(At(q, i)) = "knows" THEN i
    ELSE IF /\ Lower(At(q, i)) \in {"experience", "skilled"}
            /\ At(q, i + 1) = Space /\ Lower(At(q, i + 2)) = "in"
    THEN i + 2
    ELSE IF /\ Lower(At(q, i)) = "familiar"
            /\ At(q, i + 1) = Space /\ Lower(At(q, i + 2)) = "with"
    THEN i + 2
    ELSE 0

\* /(?:experience in|skilled in|knows|familiar with)\s+([^,.]+)/ anchored
\* at i: \s+ takes at least one whitespace and [^,.]+ at least one more
\* character of the run
SkillPhraseMatchAt(q, i) ==
    LET k == SkillKeywordEnd(q, i)
        e == PhraseRunEnd(q, k + 1)
    IN IF k > 0 /\ At(q, k + 1) = Space /\ e >= k + 2
       THEN RegexMatch(q, i, e, k + 2, e)
       ELSE NoRegexMatch

RoleWords == {"developer", "engineer", "specialist"}

\* (\w+(?:\s+\w+)*?)\s+(?:developer|engineer|specialist) with the words
\* captured so far running from i to w
RECURSIVE RoleScan(_, _, _)
RoleScan(q, i, w) ==
    LET n == AfterSpaces(q, w + 1)
    IN IF n > 0 /\ Lower(At(q, n)) \in RoleWords
       THEN RegexMatch(q, i, n, i, w)
       ELSE IF n > 0 /\ IsWord(At(q, n)) THEN RoleScan(q, i, n)
       ELSE NoRegexMatch

\* /(\w+(?:\s+\w+)*?)\s+(?:developer|engineer|specialist)/ anchored at i
RoleMatchAt(q, i) ==
    IF IsWord(At(q, i)) THEN RoleScan(q, i, i) ELSE NoRegexMatch

\* the two skillPatterns, by position in the array
SkillPatternAt(pattern, q, i) ==
    IF pattern = 1 THEN SkillPhraseMatchAt(q, i) ELSE RoleMatchAt(q, i)

\* query.matchAll(pattern): the leftmost match at or after `from`, then
\* the matches after its end
RECURSIVE MatchAll(_, _, _)
MatchAll(pattern, q, from) ==
    LET i == Least({k \in from..Len(q) : SkillPatternAt(pattern, q, k).found})
    IN IF i = 0 THEN <<>>
       ELSE LET m == SkillPatternAt(pattern, q, i)
            IN <<m>> \o MatchAll(pattern, q, m.last + 1)

\* the matches of both patterns in the order the forEach visits them
SkillMatches(q) == MatchAll(1, q, 1) \o MatchAll(2, q, 1)

\* the loop body over the matches: match[1].trim() is pushed and match[0]
\* is removed from the semantic query, which is then trimmed
RECURSIVE RemoveAll(_, _)
RemoveAll(semanticQuery, ms) ==
    IF ms = <<>> THEN semanticQuery
    ELSE RemoveAll(Trim(ReplaceFirst(semanticQuery, ms[1].whole)), Tail(ms))

NoFilters == [k \in {} |-> <<>>]

Filter(key, m, value) == IF m.found THEN key :> value ELSE NoFilters

\* semanticQuery.replace(match[0], '').trim() when the pattern matched
Consume(semanticQuery, m) ==
    IF m.found THEN Trim(ReplaceFirst(semanticQuery, m.whole))
    ELSE semanticQuery

\* OpenAIService.parseSearchQuery
ParseSearchQuery(query) ==
    LET gpaMatch == FirstMatch([k \in 1..Len(query) |-> GpaMatchAt(query, k)])
        companyMatch == FirstMatch([k \in 1..Len(query) |-> CompanyMatchAt(query, k)])
        universityMatch == FirstMatch([k \in 1..Len(query) |-> UniversityMatchAt(query, k)])
        skills == SkillMatches(query)
        s1 == Consume(query, gpaMatch)
        s2 == Consume(s1, companyMatch)
        s3 == Consume(s2, universityMatch)
        s4 == RemoveAll(s3, skills)
    IN [filters |->
            Filter("gpa", gpaMatch,
                   [gte |-> IF gpaMatch.found
                            THEN ParseFloat(gpaMatch.group) ELSE "NaN"])
            @@ Filter("company", companyMatch,
                      IF companyMatch.found
                      THEN companyMatch.group[1] ELSE "")
            @@ Filter("university", universityMatch,
                      IF universityMatch.found
                      THEN Trim(universityMatch.group) ELSE <<>>)
            @@ (IF skills = <<>> THEN NoFilters
                ELSE "skills" :> [k \in 1..Len(skills) |->
                                     Trim(skills[k].group)]),
        semanticQuery |-> Trim(CollapseSpaces(s4))]

\* ------------------------------------------------------ parser requests
\* the phrases queries are made of: filler words and one or two phrases of
\* each form of the filter grammar
MaxPhrases == 4

Phrases ==
    { <<"candidates">>, <<"who">>, <<"with">>, <<"and">>,
      <<"GPA", " ", "above", " ", "3", ".", "5">>,
      <<"worked", " ", "at", " ", "Traveloka">>,
      <<"worked", " ", "at", " ", "Gojek">>,
      <<"from", " ", "UI">>,
      <<"knows", " ", "python">>,
      <<"python", " ", "developer">> }

\* phrases joined by single spaces
RECURSIVE JoinPhrases(_)
JoinPhrases(ps) ==
    IF ps = <<>> THEN <<>>
    ELSE IF Len(ps) = 1 THEN ps[1]
    ELSE ps[1] \o <<Space>> \o JoinPhrases(Tail(ps))

\* "candidates from UI with GPA above 3.2 who worked at Traveloka"
ExampleThreeFilters ==
    JoinPhrases(<< <<"candidates">>, <<"from", " ", "UI">>, <<"with">>,
                   <<"GPA", " ", "above", " ", "3", ".", "2">>, <<"who">>,
                   <<"worked", " ", "at", " ", "Traveloka">> >>)

\* "Find candidates with GPA above 3.5"
ExampleGpaOnly ==
    JoinPhrases(<< <<"Find">>, <<"candidates">>, <<"with">>,
                   <<"GPA", " ", "above", " ", "3", ".", "5">> >>)

Queries ==
    {JoinPhrases(ps) : ps \in UNION {[1..n -> Phrases] : n \in 1..MaxPhrases}}
        \cup {ExampleThreeFilters, ExampleGpaOnly}

\* parseSearchQuery is called on a query, and then on the residual it gave
ParseQuery ==
    /\ ~parsed.done
    /\ \E q \in Queries :
         LET first == ParseSearchQuery(q)
         IN parsed' = [done |-> TRUE, query |-> q, first |-> first,
                       second |-> ParseSearchQuery(first.semanticQuery)]
    /\ UNCHANGED <<search, matchVars, pipeVars, helperVars>>

NextParse == ParseQuery

SpecParse == Init /\ [][NextParse]_vars

\* ========================================================== hybrid search
\* OpenAIService.buildDatabaseQuery, calculateCosineSimilarity, searchCVs.
\* A stored CVData document is kept by the fields the search reads: one
\* experience entry's company, one education entry's institution and gpa
\* (in tenths; the stored strings are one-digit decimals, on which string
\* order and numeric order agree), the skills, and the embedding, which is
\* a vector or absent.
MaxCVs == 2

SearchIds == <<"c1", "c2", "c3">>

StoredCompanies == {<<"Traveloka">>, <<"PT", " ", "Gojek">>}

CandidateDoc(id, company, embedding) ==
    [id |-> id, company |-> company, institution |-> <<"UI">>, gpa |-> 35,
     skills |-> <<"python">>, embedding |-> embedding]

\* the collections a search may find: any companies, any embeddings or none
SearchStores ==
    UNION {[1..n -> StoredCompanies \X (Vectors \cup {NoEmbedding})] :
              n \in 0..MaxCVs}

StoreOf(f) ==
    [k \in 1..Len(f) |-> CandidateDoc(SearchIds[k], f[k][1], f[k][2])]

\* the number of characters of a string of symbols
RECURSIVE CharLength(_)
CharLength(q) == IF q = <<>> THEN 0 ELSE Len(q[1]) + CharLength(Tail(q))

\* the symbols of a string, each lower-cased
LowerAll(q) == [k \in 1..Len(q) |-> Lower(q[k])]

\* new RegExp(pattern, 'i').test(field) for a pattern without
\* metacharacters
RegexTest(pattern, field) == IndexOf(LowerAll(field), LowerAll(pattern)) # 0

\* the clauses buildDatabaseQuery adds for the parsed filters, by the path
\* they constrain
FilterClauses(filters) ==
    (IF "gpa" \in DOMAIN filters
        THEN "education.gpa" :> filters["gpa"] ELSE NoFilters)
    @@ (IF "company" \in DOMAIN filters
        THEN "experience.company" :> [regex |-> <<filters["company"]>>]
        ELSE NoFilters)
    @@ (IF "university" \in DOMAIN filters
        THEN "education.institution" :> [regex |-> filters["university"]]
        ELSE NoFilters)
    @@ (IF "skills" \in DOMAIN filters /\ Len(filters["skills"]) > 0
        THEN "skills.skills" :> [in |-> filters["skills"]]
        ELSE NoFilters)

FilterClausesOnly(filters) == FilterClauses(filters)

\* OpenAIService.buildDatabaseQuery: only documents with an embedding
BuildDatabaseQuery(filters) ==
    ("embedding" :> [exists |-> TRUE]) @@ FilterClauses(filters)

\* a document satisfies every clause of the query
Satisfies(doc, dbQuery) ==
    /\ "embedding" \in DOMAIN dbQuery => doc.embedding # NoEmbedding
    /\ "education.gpa" \in DOMAIN dbQuery =>
          /\ dbQuery["education.gpa"].gte \in Int
          /\ doc.gpa >= dbQuery["education.gpa"].gte
    /\ "experience.company" \in DOMAIN dbQuery =>
          RegexTest(dbQuery["experience.company"].regex, doc.company)
    /\ "education.institution" \in DOMAIN dbQuery =>
          RegexTest(dbQuery["education.institution"].regex, doc.institution)
    /\ "skills.skills" \in DOMAIN dbQuery =>
          \E k \in 1..Len(dbQuery["skills.skills"].in) :
             \E j \in 1..Len(doc.skills) :
                RegexTest(dbQuery["skills.skills"].in[k], <<doc.skills[j]>>)

\* the subsequence of the elements that pass a test, in order
RECURSIVE SelectDocs(_, _)
SelectDocs(docs, dbQuery) ==
    IF docs = <<>> THEN <<>>
    ELSE (IF Satisfies(docs[1], dbQuery) THEN <<docs[1]>> ELSE <<>>)
         \o SelectDocs(Tail(docs), dbQuery)

\* CVData.find(dbQuery): the matching documents in collection order
FindCVs(dbQuery) == SelectDocs(cvCollection, dbQuery)

\* a score dot / sqrt(squares) is kept as the pair (dot, squares); the
\* filter score 1.0 is (1, 1)
PerfectScore == [dot |-> 1, squares |-> 1]

\* OpenAIService.calculateCosineSimilarity on vectors of two components
CalculateCosineSimilarity(vecA, vecB) ==
    [dot |-> vecA[1] * vecB[1] + vecA[2] * vecB[2],
     squares |-> (vecA[1] * vecA[1] + vecA[2] * vecA[2])
                 * (vecB[1] * vecB[1] + vecB[2] * vecB[2])]

\* the sign of a score times its square, over the common denominator of
\* two scores: an integer that orders scores as their values do
Scaled(a, b) ==
    (IF a.dot < 0 THEN -1 ELSE 1) * a.dot * a.dot * b.squares

\* a.score < b.score
ScoreLess(a, b) == Scaled(a, b) < Scaled(b, a)

\* Array.prototype.sort((a, b) => b.score - a.score): stable, descending
RECURSIVE InsertByScore(_, _)
InsertByScore(e, s) ==
    IF s = <<>> THEN <<e>>
    ELSE IF ScoreLess(s[1].score, e.score) THEN <<e>> \o s
    ELSE <<s[1]>> \o InsertByScore(e, Tail(s))

FilteredOrder(s) == s

RECURSIVE SortByScore(_)
SortByScore(s) ==
    IF s = <<>> THEN <<>>
    ELSE InsertByScore(s[Len(s)], SortByScore(SubSeq(s, 1, Len(s) - 1)))

\* ------------------------------------------------------ search requests
\* the queries searched for: with and without filters, with residuals of
\* no, two, three and more characters
SearchQueries ==
    { <<"worked", " ", "at", " ", "Traveloka">>,
      <<"candidates", " ", "worked", " ", "at", " ", "Gojek">>,
      <<"who", " ", "worked", " ", "at", " ", "Gojek">>,
      <<"UI">>,
      <<"python">>,
      <<"from", " ", "UI">>,
      <<"GPA", " ", "above", " ", "3", ".", "5", " ", "python", " ",
        "developer">> }

SearchLimits == {1, 2}

\* semanticQuery.length < 3
MinSemanticLength == 3

OnlyWhenEmpty(semanticQuery, filteredCVs) ==
    semanticQuery = <<>> \/ Len(filteredCVs) = 0

\* !semanticQuery || semanticQuery.length < 3 || filteredCVs.length === 0
IsFilterOnly(semanticQuery, filteredCVs) ==
    \/ semanticQuery = <<>>
    \/ CharLength(semanticQuery) < MinSemanticLength
    \/ Len(filteredCVs) = 0

\* slice(0, limit).map(cv => ({...cv.toObject(), score: 1.0, matchType: 'filter'}))
FilterResults(filteredCVs, limit) ==
    [k \in 1..Min(limit, Len(filteredCVs)) |->
        [cv |-> filteredCVs[k], score |-> PerfectScore,
         matchType |-> "filter"]]

\* the scored, sorted and sliced candidates of the hybrid path
HybridResults(filteredCVs, queryEmbedding, limit) ==
    LET scoredCVs == [k \in 1..Len(filteredCVs) |->
                        [cv |-> filteredCVs[k],
                         score |-> CalculateCosineSimilarity(
                                       queryEmbedding,
                                       filteredCVs[k].embedding)]]
        sorted == SortByScore(scoredCVs)
    IN [k \in 1..Min(limit, Len(sorted)) |->
           [cv |-> sorted[k].cv, score |-> sorted[k].score,
            matchType |-> "hybrid"]]

\* the state of a call once CVData.find has answered: returned on the
\* filter-only branch, otherwise waiting for the query embedding
SearchRequest(query, limit, p, dbQuery, filteredCVs) ==
    [query |-> query, limit |-> limit, filters |-> p.filters,
     semanticQuery |-> p.semanticQuery, dbQuery |-> dbQuery,
     filteredCVs |-> filteredCVs, embeddingCalls |-> 0,
     pc |-> IF IsFilterOnly(p.semanticQuery, filteredCVs)
            THEN "returned" ELSE "embedding",
     results |-> IF IsFilterOnly(p.semanticQuery, filteredCVs)
                 THEN FilterResults(filteredCVs, limit) ELSE <<>>]

\* const filteredCVs = await CVData.find(dbQuery)
RunQuery(query, limit, p, dbQuery) ==
    SearchRequest(query, limit, p, dbQuery, FindCVs(dbQuery))

\* const dbQuery = this.buildDatabaseQuery(filters)
BuildQuery(query, limit, p) ==
    RunQuery(query, limit, p, BuildDatabaseQuery(p.filters))

\* searchCVs up to its first external call: the query is parsed, the
\* database query built and run; the filter-only branch returns at once
SearchCVs ==
    /\ search.pc = "idle"
    /\ \E query \in SearchQueries, limit \in SearchLimits :
         search' = BuildQuery(query, limit, ParseSearchQuery(query))
    /\ UNCHANGED <<parsed, matchVars, pipeVars, helperVars>>

\* getEmbeddings(semanticQuery) answers, or throws and searchCVs rethrows
QueryEmbedded ==
    /\ search.pc = "embedding"
    /\ \/ search' = [search EXCEPT !.pc = "thrown",
                                   !.embeddingCalls = @ + 1]
       \/ \E queryEmbedding \in Vectors :
            search' = [search EXCEPT
                         !.pc = "returned", !.embeddingCalls = @ + 1,
                         !.results = HybridResults(search.filteredCVs,
                                                   queryEmbedding,
                                                   search.limit)]
    /\ UNCHANGED <<parsed, matchVars, pipeVars, helperVars>>

\* the caller has its answer
SearchDone ==
    /\ search.pc \in {"returned", "thrown"}
    /\ search' = IdleSearch
    /\ UNCHANGED <<parsed, matchVars, pipeVars, helperVars>>

NextSearch ==
    \/ SearchCVs
    \/ QueryEmbedded
    \/ SearchDone

\* a search runs against a collection that is not written meanwhile
InitSearch ==
    /\ now = 0
    /\ cvs = [c \in CvIds |-> [extractedAt |-> 0]]
    /\ jobs = [j \in JobIds |-> [active |-> TRUE, updatedAt |-> 0]]
    /\ matches = [p \in Pairs |-> <<>>]
    /\ ops = [o \in OpIds |-> IdleOp]
    /\ edits = 0
    /\ started = 0
    /\ file = "none"
    /\ pipe = IdlePipe
    /\ parsed = NotParsed
    /\ search = IdleSearch
    /\ completed = NoneCompleted
    /\ batch = IdleBatch
    /\ textCheck = NotChecked
    /\ jobMatch = NotMatched
    /\ \E f \in SearchStores : cvCollection = StoreOf(f)

SpecSearch == InitSearch /\ [][NextSearch]_vars

\* a vector without length: calculateCosineSimilarity accepts any array of
\* numbers and the stored embedding is whatever was written to the record
ZeroVector == <<0, 0>>

\* the collections whose embeddings may also be the zero vector
ZeroStores ==
    UNION {[1..n -> StoredCompanies
                    \X (Vectors \cup {ZeroVector, NoEmbedding})] :
              n \in 0..MaxCVs}

\* a search against a collection that may hold zero vectors
InitZero ==
    /\ now = 0
    /\ cvs = [c \in CvIds |-> [extractedAt |-> 0]]
    /\ jobs = [j \in JobIds |-> [active |-> TRUE, updatedAt |-> 0]]
    /\ matches = [p \in Pairs |-> <<>>]
    /\ ops = [o \in OpIds |-> IdleOp]
    /\ edits = 0
    /\ started = 0
    /\ file = "none"
    /\ pipe = IdlePipe
    /\ parsed = NotParsed
    /\ search = IdleSearch
    /\ completed = NoneCompleted
    /\ batch = IdleBatch
    /\ textCheck = NotChecked
    /\ jobMatch = NotMatched
    /\ \E f \in ZeroStores : cvCollection = StoreOf(f)

SpecZero == InitZero /\ [][NextSearch]_vars

\* ================================================= failing external calls
\* calculateMatchingScore when one of its awaited calls rejects: every await
\* sits in the try block of lines 53-136, whose catch logs and rethrows.

\* Match.findOne rejects: the catch block rethrows, the call is rejected
LookupFailed(o, i) ==
    LET op == ops[o]
        call == op.calls[i]
    IN
    /\ call.pc = "lookup"
    /\ ops' = [ops EXCEPT ![o] =
                  Settle(op, i, [call EXCEPT !.pc = "failed",
                                             !.err = "lookup"])]
    /\ UNCHANGED <<now, cvs, jobs, matches, edits, started>>

ScoringFailedThenRetried(o, i) ==
    LET op == ops[o]
        call == op.calls[i]
    IN
    /\ call.pc = "miss"
    /\ call.scoringCalls < 2
    /\ ops' = [ops EXCEPT ![o] =
                  Settle(op, i, [call EXCEPT !.scoringCalls = @ + 1])]
    /\ UNCHANGED <<now, cvs, jobs, matches, edits, started>>

\* openaiService.calculateJobMatch rejects: nothing is written
ScoringFailed(o, i) ==
    LET op == ops[o]
        call == op.calls[i]
    IN
    /\ call.pc = "miss"
    /\ ops' = [ops EXCEPT ![o] =
                  Settle(op, i, [call EXCEPT !.pc = "failed",
                                             !.err = "scoring",
                                             !.scoringCalls = @ + 1])]
    /\ UNCHANGED <<now, cvs, jobs, matches, edits, started>>

\* the scoring service answers but cachedMatch.save() / Match.create
\* rejects: the score is dropped with the call
PersistFailed(o, i) ==
    LET op == ops[o]
        call == op.calls[i]
    IN
    /\ call.pc = "miss"
    /\ ops' = [ops EXCEPT ![o] =
                  Settle(op, i, [call EXCEPT !.pc = "failed",
                                             !.err = "persist",
                                             !.scored = TRUE,
                                             !.scoringCalls = @ + 1])]
    /\ UNCHANGED <<now, cvs, jobs, matches, edits, started>>

\* a step of the i-th call of request o, with the order of settlement kept
CallStep(o, i) ==
    /\ \/ CacheLookup(o, i)
       \/ ScoreAndStore(o, i)
       \/ LookupFailed(o, i)
       \/ ScoringFailed(o, i)
       \/ PersistFailed(o, i)
    /\ completed' =
          IF ops'[o].calls[i].pc \in {"done", "failed"}
          THEN [completed EXCEPT ![o] = Append(@, i)]
          ELSE completed

\* one request at a time on a quiet store, every awaited call may reject
NextFault ==
    /\ \/ FindTopCVsForJob(1) /\ UNCHANGED completed
       \/ FindBestJobsForCV(1) /\ UNCHANGED completed
       \/ \E i \in 1..Len(ops[1].calls) : CallStep(1, i)
       \/ Respond(1) /\ completed' = NoneCompleted
    /\ UNCHANGED <<pipeVars, searchVars, batch, textCheck, jobMatch>>

SpecFault == Init /\ [][NextFault]_vars

\* uploads and ranking requests with every external call free to fail.
\* The extraction pipeline and the matching service share no state, so a
\* behaviour runs the one or the other.
NextCalls ==
    \/ started = 0 /\ NextPipe
    \/ cvCollection = <<>> /\ pipe.pc = "idle" /\ NextFault

SpecCalls == Init /\ [][NextCalls]_vars

\* ================================================================ batches
\* CVScoringService.processCVsInBatches / processBatch and
\* CVExtractionService.updateAllEmbeddings: a loop over CVs, one step per
\* iteration.  `log` keeps the outcome of every iteration (history).
MaxBatchCVs == 3

BatchSizes == {1, 2}

\* the CV lists handed to processCVsInBatches; an id may come twice
BatchCvLists ==
    UNION {[1..n -> {"c1", "c2", "c3"}] : n \in 1..MaxBatchCVs}

\* what calculateMultipleJobMatches may resolve to for one CV
MatchResultLists ==
    { <<[jobId |-> "j1", score |-> 1]>>,
      <<[jobId |-> "j1", score |-> 0], [jobId |-> "j2", score |-> 1]>> }

\* the rows processBatch pushes for one CV
ResultRows(cvId, matchResults) ==
    [k \in 1..Len(matchResults) |->
        [cvId |-> cvId, jobId |-> matchResults[k].jobId,
         score |-> matchResults[k].score]]

\* the positions of the documents CVData.find({embedding: {$exists: false}})
\* answers, in collection order
WithoutEmbedding ==
    LET missing(k) == cvCollection[k].embedding = NoEmbedding
    IN SelectSeq([k \in 1..Len(cvCollection) |-> k], missing)

AbortBatch(b, outcome) ==
    [b EXCEPT !.pc = "thrown", !.log = Append(@, outcome)]

\* the catch block of an iteration: the error is logged and the loop goes on
ContinueBatch(b, outcome) ==
    [b EXCEPT !.log = Append(@, outcome), !.next = @ + 1]

\* the batch whose last CV has been handled: results.push(...batchResults)
EndOfBatch(b) ==
    IF b.next > Len(b.cvs) \/ (b.next - 1) % b.batchSize = 0
    THEN [b EXCEPT !.results = @ \o b.batchResults, !.batchResults = <<>>,
                   !.pc = IF b.next > Len(b.cvs) THEN "returned" ELSE @]
    ELSE b

\* processCVsInBatches is called
ProcessCVsInBatches ==
    /\ batch.pc = "idle"
    /\ \E cvList \in BatchCvLists, batchSize \in BatchSizes :
         batch' = [pc |-> "scoring", kind |-> "scoring", cvs |-> cvList, batchSize |-> batchSize,
                   next |-> 1, batchResults |-> <<>>, results |-> <<>>,
                   processedCVs |-> {}, log |-> <<>>]
    /\ UNCHANGED <<matchVars, pipeVars, searchVars, completed, textCheck,
                   jobMatch>>

\* one iteration of the loop of processBatch; after the last CV of a batch
\* the rows of the batch are moved to the results
ProcessBatch ==
    /\ batch.pc = "scoring"
    /\ LET cvId == batch.cvs[batch.next] IN
       IF cvId \in batch.processedCVs
       THEN batch' = EndOfBatch(ContinueBatch(batch, "skipped"))
       ELSE LET marked == [batch EXCEPT !.processedCVs = @ \cup {cvId}] IN
            \/ batch' = EndOfBatch(ContinueBatch(marked, "failed"))
            \/ \E matchResults \in MatchResultLists :
                 batch' = EndOfBatch(
                     [marked EXCEPT
                        !.batchResults = @ \o ResultRows(cvId, matchResults),
                        !.log = Append(@, "ok"), !.next = @ + 1])
    /\ UNCHANGED <<matchVars, pipeVars, searchVars, completed, textCheck,
                   jobMatch>>

\* updateAllEmbeddings is called: the find answers or rejects
UpdateAllEmbeddings ==
    /\ batch.pc = "idle"
    /\ \/ batch' = [pc |-> "thrown", kind |-> "embeddings", cvs |-> <<>>,
                    next |-> 1, log |-> <<>>]
       \/ batch' = [pc |-> IF WithoutEmbedding = <<>>
                           THEN "returned" ELSE "embeddings",
                    kind |-> "embeddings", cvs |-> WithoutEmbedding,
                    next |-> 1, log |-> <<>>]
    /\ UNCHANGED <<matchVars, pipeVars, searchVars, completed, textCheck,
                   jobMatch>>

\* the loop went past its last CV
EndOfLoop(b) ==
    IF b.next > Len(b.cvs) THEN [b EXCEPT !.pc = "returned"] ELSE b

\* one iteration of the loop of updateAllEmbeddings: getEmbeddings, then
\* cv.save(); either may reject
UpdateEmbedding ==
    /\ batch.pc = "embeddings"
    /\ LET k == batch.cvs[batch.next] IN
       \/ /\ batch' = EndOfLoop(ContinueBatch(batch, "failed"))
          /\ UNCHANGED cvCollection
       \/ \E v \in Vectors :
            /\ cvCollection' = [cvCollection EXCEPT ![k].embedding = v]
            /\ batch' = EndOfLoop([batch EXCEPT !.log = Append(@, "ok"),
                                                !.next = @ + 1])
    /\ UNCHANGED <<matchVars, file, pipe, searchVars, completed, textCheck,
                   jobMatch>>

\* the caller has its answer
BatchDone ==
    /\ batch.pc \in {"returned", "thrown"}
    /\ batch' = IdleBatch
    /\ UNCHANGED <<matchVars, pipeVars, searchVars, completed, textCheck,
                   jobMatch>>

NextBatch ==
    \/ ProcessCVsInBatches
    \/ ProcessBatch
    \/ UpdateAllEmbeddings
    \/ UpdateEmbedding
    \/ BatchDone

\* batches run on a stored collection
SpecBatch == InitSearch /\ [][NextBatch]_vars

\* ======================================================= text sufficiency
\* pdfService.isTextSufficient is called on a text
CheckText ==
    /\ ~textCheck.done
    /\ \E text \in SampleTexts :
         textCheck' = [done |-> TRUE, text |-> text,
                       result |-> IsTextSufficient(Measure(text))]
    /\ UNCHANGED <<matchVars, pipeVars, searchVars, completed, batch,
                   jobMatch>>

NextText == CheckText

SpecText == Init /\ [][NextText]_vars

\* ================================================ match normalisation
\* The normalisation of the details of an upstream match result, written
\* twice in the source (calculateJobMatch and calculateMultipleJobMatches).
\* A JSON value is a record of its type and content; Undefined is what
\* reading a missing key gives.
Undefined == [type |-> "undefined", num |-> 0, str |-> ""]

JsonNumber(n) == [type |-> "number", num |-> n, str |-> ""]

JsonString(s) == [type |-> "string", num |-> 0, str |-> s]

\* the values JavaScript takes as true
Truthy(v) ==
    \/ v.type = "number" /\ v.num # 0
    \/ v.type = "string" /\ v.str # ""

\* a || b
Or(a, b) == IF Truthy(a) THEN a ELSE b

SubObjectNames == {"skills", "experience", "education", "overall"}

AlternateKeys == {"match", "relevance", "fit", "alignment"}

\* the keys read from a sub-object of details
SubObjectKeys == {"score", "analysis"} \cup AlternateKeys

\* details?.name?.key is undefined for a missing key, a missing sub-object
\* and missing details alike: a sub-object is the value under each key,
\* Undefined where the key is missing
EmptyObject == [k \in SubObjectKeys |-> Undefined]

\* a sub-object as the prompt asks for it
WellFormed ==
    [EmptyObject EXCEPT !["score"] = JsonNumber(80),
                        !["analysis"] = JsonString("ok")]

\* what the upstream response may carry under a score key
ScoreValues == {Undefined, JsonNumber(0), JsonNumber(80), JsonString("high")}

\* what the upstream response may carry under analysis
AnalysisValues ==
    {Undefined, JsonString(""), JsonString("ok"), JsonNumber(5)}

\* sub-objects with any score, any analysis and any value under one of
\* the alternate keys
SubObjects ==
    { [[EmptyObject EXCEPT !["score"] = s, !["analysis"] = a]
          EXCEPT ![k] = v] :
        s \in ScoreValues, a \in AnalysisValues,
        k \in AlternateKeys, v \in ScoreValues }

\* the details of an upstream response: one sub-object is arbitrary, each
\* of the others is missing or as the prompt asks
UpstreamDetails ==
    { [rest EXCEPT ![name] = sub] :
        name \in SubObjectNames, sub \in SubObjects,
        rest \in [SubObjectNames -> {EmptyObject, WellFormed}] }

SameAlternate(name) == "match"

\* the second key each sub-object's score is read from
OwnAlternate(name) ==
    CASE name = "skills" -> "match"
      [] name = "experience" -> "relevance"
      [] name = "education" -> "alignment"
      [] name = "overall" -> "fit"

\* { score: sub?.score || sub?.<alternate> || 0,
\*   analysis: sub?.analysis || '' }
NormalizeSub(name, sub) ==
    [score |-> Or(Or(sub["score"], sub[OwnAlternate(name)]), JsonNumber(0)),
     analysis |-> Or(sub["analysis"], JsonString(""))]

\* normalizedDetails
NormalizeDetails(details) ==
    [name \in SubObjectNames |-> NormalizeSub(name, details[name])]

\* calculateJobMatch returns: the parsed response, its details replaced by
\* the normalised ones
CalculateJobMatch ==
    /\ ~jobMatch.done
    /\ \E details \in UpstreamDetails :
         jobMatch' = [done |-> TRUE, thrown |-> FALSE, upstream |-> details,
                      details |-> NormalizeDetails(details)]
    /\ UNCHANGED <<matchVars, pipeVars, searchVars, completed, batch,
                   textCheck>>

\* the completion call or JSON.parse throws: the catch block rethrows
JobMatchThrown ==
    /\ ~jobMatch.done
    /\ jobMatch' = [done |-> TRUE, thrown |-> TRUE]
    /\ UNCHANGED <<matchVars, pipeVars, searchVars, completed, batch,
                   textCheck>>

\* the caller has its answer
JobMatchDone ==
    /\ jobMatch.done
    /\ jobMatch' = NotMatched
    /\ UNCHANGED <<matchVars, pipeVars, searchVars, completed, batch,
                   textCheck>>

NextNorm ==
    \/ CalculateJobMatch
    \/ JobMatchThrown
    \/ JobMatchDone

SpecNorm == Init /\ [][NextNorm]_vars

\* ============================================================ properties
\* the i-th call of request o takes this step
Stepped(o, i) ==
    /\ i \in 1..Len(ops[o].calls)
    /\ Len(ops'[o].calls) = Len(ops[o].calls)
    /\ ops'[o].calls[i] # ops[o].calls[i]

\* the versions stored with m are not older than the documents of the store
VersionsCurrent(m) ==
    /\ m.cvVersion >= CvUpdateTime(cvs[m.cvId])
    /\ m.jobVersion >= JobUpdateTime(jobs[m.jobId])

\* the versions stored with m are not older than the documents a call holds
VersionsCurrentFor(m, cv, job) ==
    /\ m.cvVersion >= CvUpdateTime(cv)
    /\ m.jobVersion >= JobUpdateTime(job)

\* C1 (strict TTL): isCacheValid is true iff a record exists, its versions
\* are not older than the CV's and the job's modification times, and
\* now < updatedAt + cacheTime strictly.
C1_ValidIffStrictTtl ==
    \A d \in StoredRefs :
        LET m == Doc(d) IN
        IsCacheValid(m, cvs[m.cvId], jobs[m.jobId], now)
            <=> (VersionsCurrent(m) /\ now < m.updatedAt + m.cacheTime)

\* C1 (inclusive TTL): isCacheValid is true iff a record exists, its versions are
\* not older than the CV's and the job's modification times, and
\* now <= updatedAt + cacheTime (at now = updatedAt + cacheTime the record
\* is still valid); one clock unit after the TTL the record is invalid
\* whatever its versions are.
C1_ValidIffTtlInclusive ==
    /\ \A c \in CvIds, j \in JobIds :
          ~IsCacheValid(NoMatch, cvs[c], jobs[j], now)
    /\ \A d \in StoredRefs :
          LET m == Doc(d) IN
          /\ IsCacheValid(m, cvs[m.cvId], jobs[m.jobId], now)
                <=> (VersionsCurrent(m) /\ now <= m.updatedAt + m.cacheTime)
          /\ now = m.updatedAt + m.cacheTime + 1
                => ~IsCacheValid(m, cvs[m.cvId], jobs[m.jobId], now)

\* a stored record whose versions are current and whose TTL ran out one
\* clock unit ago
C1_Witness ==
    \E d \in StoredRefs :
        /\ VersionsCurrent(Doc(d))
        /\ now = Doc(d).updatedAt + Doc(d).cacheTime + 1
        /\ ~IsCacheValid(Doc(d), cvs[Doc(d).cvId], jobs[Doc(d).jobId], now)

\* C2: a call that finds a valid cached MatchRecord returns exactly the
\* stored score, details and recommendations with fromCache = true, never
\* calls the scoring service and leaves the MatchRecord unchanged.
C2_CacheHitReturnsStored ==
    [][\A o \in OpIds : \A i \in 1..Len(ops[o].calls) :
         LET op == ops[o]
             cv == CallCv(op, i)
             job == CallJob(op, i)
             m == DocAt(cv.id, job.id, FindOne(cv.id, job.id))
         IN (/\ Stepped(o, i)
             /\ op.calls[i].pc = "lookup"
             /\ m # NoMatch
             /\ VersionsCurrentFor(m, cv.doc, job.doc)
             /\ now <= m.updatedAt + m.cacheTime)
            => /\ ops'[o].calls[i].pc = "done"
               /\ ops'[o].calls[i].result =
                     [score |-> m.score, details |-> m.details,
                      recommendations |-> m.recommendations, fromCache |-> TRUE]
               /\ ~ops'[o].calls[i].scored
               /\ matches' = matches]_vars

\* a call answered from the cache
C2_Witness ==
    \E o \in OpIds : \E i \in 1..Len(ops[o].calls) :
        /\ ops[o].calls[i].pc = "done"
        /\ ~ops[o].calls[i].scored
        /\ ops[o].calls[i].result.fromCache

C4_OneRecordPerPair ==
    /\ [](\A p \in Pairs : Len(matches[p]) <= 1)
    /\ [][\A p \in Pairs : \A k \in 1..Len(matches'[p]) :
            (k > Len(matches[p]) \/ matches'[p][k] # matches[p][k])
            => \E o \in OpIds : \E i \in 1..Len(ops[o].calls) :
                  /\ CallCv(ops[o], i).id = p[1]
                  /\ CallJob(ops[o], i).id = p[2]
                  /\ ops[o].calls[i].pc = "miss"
                  /\ ops'[o].calls[i].pc = "done"
                  /\ ops'[o].calls[i].scored
                  /\ ops'[o].calls[i].result.score = matches'[p][k].score]_vars

\* two calls for one pair both found no record; one of them has stored its
\* score and the pair has one record
C4_Witness ==
    \E o1, o2 \in OpIds : \E i1 \in 1..Len(ops[o1].calls) :
      \E i2 \in 1..Len(ops[o2].calls) :
        /\ o1 # o2
        /\ CallCv(ops[o1], i1).id = CallCv(ops[o2], i2).id
        /\ CallJob(ops[o1], i1).id = CallJob(ops[o2], i2).id
        /\ ops[o1].calls[i1].pc = "done"
        /\ ops[o1].calls[i1].scored
        /\ ops[o1].calls[i1].doc = 0
        /\ ops[o2].calls[i2].pc \in {"miss", "failed"}
        /\ ops[o2].calls[i2].doc = 0
        /\ Len(matches[<<CallCv(ops[o1], i1).id, CallJob(ops[o1], i1).id>>]) = 1

\* C5: no call of calculateMatchingScore fails or loses its result because
\* another call inserted the record of its pair between its lookup and its
\* write.
C5_NoCallLosesTheRace ==
    \A o \in OpIds : \A i \in 1..Len(ops[o].calls) :
        ops[o].calls[i].err # "duplicate"

\* the entries of a returned list, as a set of positions
Returned(o) == 1..Len(ops[o].result)

\* C6: a request without forceRefresh that starts when the store holds at
\* least `limit` valid cached matches for its anchor is answered from the
\* cache alone: none of its calls reaches the scoring service, and when it
\* has returned its list holds `limit` entries, all tagged fromCache.
C6_EnoughCachedMeansNoScoring ==
    \A o \in OpIds :
        (/\ ops[o].pc # "idle"
         /\ ~ops[o].forceRefresh
         /\ ops[o].validAtStart >= ops[o].limit)
        => /\ \A i \in 1..Len(ops[o].calls) : ~ops[o].calls[i].scored
           /\ ops[o].pc = "returned"
                => /\ Len(ops[o].result) = ops[o].limit
                   /\ \A k \in Returned(o) : ops[o].result[k].fromCache

\* C7: a request with forceRefresh = true returns no entry that was served
\* from a cached MatchRecord.
C7_ForceRefreshServesNoCache ==
    \A o \in OpIds :
        (ops[o].pc = "returned" /\ ops[o].forceRefresh)
        => \A k \in Returned(o) : ~ops[o].result[k].fromCache

\* C8: a list returned without the short-circuit is built from one settled
\* calculateMatchingScore call per counterpart, is sorted in non-increasing
\* order of score, has length min(limit, number of counterparts), and no
\* counterpart left out scored strictly more than a returned entry.
C8_RecomputedListIsTopN ==
    \A o \in OpIds :
        (ops[o].pc = "returned" /\ ~ops[o].short)
        => LET op == ops[o] IN
           /\ Len(op.calls) = Len(op.items)
           /\ \A i \in 1..Len(op.calls) : op.calls[i].pc = "done"
           /\ Len(op.result) = Min(op.limit, Len(op.items))
           /\ \A a, b \in Returned(o) :
                 a < b => op.result[a].score >= op.result[b].score
           /\ \A a, b \in Returned(o) :
                 a # b => op.result[a].id # op.result[b].id
           /\ \A k \in Returned(o) : \E i \in 1..Len(op.items) :
                 /\ op.items[i].id = op.result[k].id
                 /\ op.calls[i].result.score = op.result[k].score
           /\ \A i \in 1..Len(op.items) :
                 (\A k \in Returned(o) : op.result[k].id # op.items[i].id)
                 => \A k \in Returned(o) :
                       op.calls[i].result.score <= op.result[k].score

\* three counterparts scored out of order, two of them returned
C8_Witness ==
    \E o \in OpIds :
        /\ ops[o].pc = "returned"
        /\ ~ops[o].short
        /\ Len(ops[o].items) = 3
        /\ ops[o].limit = 2
        /\ ops[o].calls[1].result.score < ops[o].calls[3].result.score

\* C9: no job that was soft-deleted when findBestJobsForCV read the jobs
\* appears in the list it returns, on either path.
C9_InactiveJobNeverReturned ==
    \A o \in OpIds :
        (ops[o].kind = "bestJobs" /\ ops[o].pc = "returned")
        => \A k \in Returned(o) : ops[o].result[k].id \notin ops[o].inactiveAtStart

\* findBestJobsForCV answered from the cache while the store holds a record
\* of a soft-deleted job whose versions and TTL are still good
C9_Witness ==
    \E o \in OpIds : \E j \in JobIds :
        /\ ops[o].kind = "bestJobs"
        /\ ops[o].pc = "returned"
        /\ ops[o].short
        /\ j \in ops[o].inactiveAtStart
        /\ matches[<<ops[o].anchor, j>>] # <<>>
        /\ IsCacheValid(matches[<<ops[o].anchor, j>>][1], ops[o].anchorDoc,
                        jobs[j], now)

\* C10: after deleteJob(j) no matching operation computes a match against
\* job j or returns matches for it: findTopCVsForJob(j) issues no scoring
\* call and returns no entry.
C10_DeletedJobIsNeverMatched ==
    \A o \in OpIds :
        (ops[o].kind = "topCVs" /\ ops[o].anchor \in ops[o].inactiveAtStart)
        => /\ \A i \in 1..Len(ops[o].calls) : ~ops[o].calls[i].scored
           /\ ops[o].result = <<>>

\* the record the current run of processCVFile has saved
SavedRecord == cvCollection[pipe.savedAt]

\* the run is over
PipeEnded == pipe.pc \in {"returned", "thrown"}

\* the vision path (rendering, then the vision call) of the run succeeded
VisionPathOk == pipe.images >= 1 /\ pipe.visionOk

\* the extraction state machine's sufficiency rule: at least 50 characters
\* after cleaning and an alphanumeric ratio of at least 0.3
SufficientByRule(text) ==
    text.clean >= 50 /\ 10 * text.alnum >= 3 * text.clean

\* C11: the persisted record is tagged 'text' exactly when the extracted
\* text was sufficient, 'vision' exactly when it was insufficient and both
\* rendering (at least one image) and the vision call succeeded,
\* 'text_fallback' exactly when it was insufficient, the vision path failed
\* and the trimmed text was not empty; and a run whose text was
\* insufficient, whose vision path failed and whose trimmed text is empty
\* fails without a text-mode extraction call.
C11_MethodFollowsRoute ==
    /\ pipe.fileRead => (pipe.sufficient <=> SufficientByRule(pipe.text))
    /\ pipe.savedAt > 0 =>
         /\ SavedRecord.extractionMethod = "text" <=> pipe.sufficient
         /\ SavedRecord.extractionMethod = "vision"
               <=> (~pipe.sufficient /\ VisionPathOk)
         /\ SavedRecord.extractionMethod = "text_fallback"
               <=> (/\ ~pipe.sufficient /\ ~VisionPathOk
                    /\ pipe.text.trimmed > 0)
         /\ pipe.sufficient => (pipe.textCalls = 1 /\ ~pipe.visionTried)
         /\ VisionPathOk => pipe.textCalls = 0
    /\ (/\ pipe.pc \in {"catch", "thrown"} /\ pipe.fileRead
        /\ ~pipe.sufficient /\ ~VisionPathOk /\ pipe.text.trimmed = 0)
       => /\ pipe.err = "bothFailed"
          /\ pipe.textCalls = 0
          /\ pipe.savedAt = 0

\* a record tagged text_fallback was saved after rendering gave no image
C11_Witness ==
    /\ pipe.pc = "returned"
    /\ SavedRecord.extractionMethod = "text_fallback"
    /\ pipe.images = 0
    /\ ~pipe.visionTried
    /\ pipe.text.clean >= 50

\* the vision call of the run threw
VisionCallThrew == pipe.visionTried /\ ~pipe.visionOk

\* C12 (raw text): every run whose text is insufficient, whose vision call
\* throws and whose raw text is not empty ends with a persisted record
\* tagged text_fallback and never in failure.
C12_FallbackNeverFails ==
    (/\ PipeEnded /\ pipe.fileRead /\ ~pipe.sufficient
     /\ VisionCallThrew /\ pipe.text.raw > 0)
    => /\ pipe.pc = "returned"
       /\ SavedRecord.extractionMethod = "text_fallback"

\* C12 (trimmed text): every run whose text is insufficient, whose vision
\* call throws and whose trimmed text is not empty makes exactly one
\* text-mode extraction call and never fails for want of content; it ends
\* with a persisted record tagged text_fallback unless that text-mode
\* call, the embedding call or the save fails, and then it fails with that
\* stage's error.
C12_FallbackTakenOnTrimmedText ==
    (/\ pipe.fileRead /\ ~pipe.sufficient
     /\ VisionCallThrew /\ pipe.text.trimmed > 0)
    => /\ pipe.err # "bothFailed"
       /\ pipe.pc \in {"textFallback", "embed", "save", "unlink",
                       "returned", "catch", "thrown"}
       /\ pipe.pc # "textFallback" => pipe.textCalls = 1
       /\ pipe.pc \in {"embed", "save", "unlink", "returned"}
            => pipe.method = "text_fallback"
       /\ pipe.pc = "returned"
            => SavedRecord.extractionMethod = "text_fallback"
       /\ pipe.pc \in {"catch", "thrown"}
            => pipe.err \in {"api", "validation", "embedding", "save"}

\* text of ratio 0.1, the vision call threw, the record was saved as
\* text_fallback
C12_Witness ==
    /\ pipe.pc = "returned"
    /\ VisionCallThrew
    /\ pipe.text.clean = 100 /\ pipe.text.alnum = 10
    /\ SavedRecord.extractionMethod = "text_fallback"

\* C13: every run that extracted the text has attempted to delete the
\* source file by the time it returns or throws; the deletion, failed or
\* not, changes nothing else: a run that saved its record returns it, a
\* failed run throws the error it failed with, and the collection is left
\* as it was.
C13_FileDeletionAttempted ==
    /\ []((PipeEnded /\ pipe.fileRead)
           => /\ pipe.unlinkTried
              /\ ~pipe.unlinkFailed => file = "deleted"
              /\ pipe.pc = "returned" <=> pipe.savedAt > 0
              /\ pipe.pc = "thrown" <=> pipe.err # "none")
    /\ [][/\ pipe.pc = "unlink"
             => /\ pipe'.pc = "returned"
                /\ cvCollection' = cvCollection
                /\ pipe'.savedAt = pipe.savedAt
          /\ pipe.pc = "catch"
             => /\ pipe'.pc = "thrown"
                /\ pipe'.err = pipe.err
                /\ cvCollection' = cvCollection]_vars

\* a run failed at the embedding stage and the deletion of its file failed
C13_Witness ==
    /\ pipe.pc = "thrown"
    /\ pipe.fileRead
    /\ pipe.err = "embedding"
    /\ pipe.unlinkTried
    /\ pipe.unlinkFailed
    /\ file = "present"

\* the structured extraction of the run succeeded, in vision or text mode
StructuredOk == pipe.visionOk \/ (pipe.textCalls = 1 /\ pipe.err = "none")

\* C14: processCVFile saves a record if and only if text extraction,
\* structured extraction, embedding and the save itself succeeded: a run
\* that throws leaves the collection as it found it, a run that returns
\* has added exactly one record; and every saved record carries an
\* embedding that was computed from that record's own searchable text.
C14_SavedIffAllStagesOk ==
    /\ pipe.savedAt > 0 <=> pipe.pc \in {"unlink", "returned"}
    /\ pipe.savedAt > 0
         => (pipe.fileRead /\ StructuredOk /\ pipe.embedOk
             /\ pipe.err = "none")
    /\ pipe.pc \in {"catch", "thrown"}
         => (pipe.err # "none" /\ Len(cvCollection) = pipe.storeAtStart)
    /\ pipe.pc = "returned"
         => (/\ Len(cvCollection) = pipe.storeAtStart + 1
             /\ pipe.savedAt = Len(cvCollection))
    /\ \A k \in 1..Len(cvCollection) :
         /\ cvCollection[k].embedding # NoEmbedding
         /\ cvCollection[k].searchableText
               = GenerateSearchableText(cvCollection[k])
         /\ cvCollection[k].embeddedText = cvCollection[k].searchableText

\* a record with a summary was saved after a vision extraction, and an
\* earlier run had saved another
C14_Witness ==
    /\ pipe.pc = "returned"
    /\ Len(cvCollection) = 2
    /\ SavedRecord.extractionMethod = "vision"
    /\ SavedRecord.summary = "s1"
    /\ Len(SavedRecord.embeddedText) = 2

\* C15: once the extraction client has answered unparseable or
\* schema-violating output, in text mode or in vision mode, the run fails
\* with the validation error, saves nothing and makes no further
\* extraction attempt.
C15_InvalidOutputFailsRun ==
    pipe.invalidOutput
    => /\ pipe.pc \in {"catch", "thrown"}
       /\ pipe.err = "validation"
       /\ pipe.savedAt = 0
       /\ pipe.textCalls + (IF pipe.visionTried THEN 1 ELSE 0) = 1

\* C19: parseSearchQuery on "candidates from UI with GPA above 3.2 who
\* worked at Traveloka" yields exactly the filters university = "UI",
\* gpa >= 3.2 and company = "Traveloka", no skills filter, and the
\* residual "candidates who"; on "Find candidates with GPA above 3.5" it
\* yields only gpa >= 3.5.
C19_ParserExamples ==
    parsed.done =>
        /\ parsed.query = ExampleThreeFilters =>
             /\ DOMAIN parsed.first.filters = {"gpa", "company", "university"}
             /\ parsed.first.filters["gpa"] = [gte |-> 32]
             /\ parsed.first.filters["company"] = "Traveloka"
             /\ parsed.first.filters["university"] = <<"UI">>
             /\ parsed.first.semanticQuery = <<"candidates", " ", "who">>
        /\ parsed.query = ExampleGpaOnly =>
             /\ DOMAIN parsed.first.filters = {"gpa"}
             /\ parsed.first.filters["gpa"] = [gte |-> 35]

\* the three-filter example has been parsed
C19_Witness ==
    /\ parsed.done
    /\ parsed.query = ExampleThreeFilters
    /\ "university" \in DOMAIN parsed.first.filters

\* C20: for every query made of phrases of the filter grammar, parsing the
\* residual semantic query a second time finds no filter and returns the
\* same residual.
C20_ResidualParsesToNothing ==
    parsed.done =>
        /\ DOMAIN parsed.second.filters = {}
        /\ parsed.second.semanticQuery = parsed.first.semanticQuery

\* the documents of the collection that pass the structured filters of the
\* running search, whether or not they hold an embedding
MatchingFilters ==
    SelectDocs(cvCollection, FilterClauses(search.filters))

\* the stored documents that pass the filters and hold an embedding
FilteredWithEmbedding ==
    SelectDocs(cvCollection,
               ("embedding" :> [exists |-> TRUE])
               @@ FilterClauses(search.filters))

FilterPathSkipsRecord ==
    /\ search.pc = "returned"
    /\ search.results # <<>>
    /\ search.results[1].matchType = "filter"
    /\ DOMAIN search.filters # {}
    /\ \E j \in 1..Len(MatchingFilters) :
          MatchingFilters[j].embedding = NoEmbedding

C17_FilterOnlyFallback ==
    (search.pc \in {"returned", "embedding", "thrown"}
         /\ CharLength(search.semanticQuery) < 3)
    => /\ search.pc = "returned"
       /\ search.embeddingCalls = 0
       /\ Len(search.results) =
             Min(search.limit, Len(FilteredWithEmbedding))
       /\ \A k \in 1..Len(search.results) :
             /\ search.results[k].cv = FilteredWithEmbedding[k]
             /\ search.results[k].matchType = "filter"
             /\ search.results[k].score = [dot |-> 1, squares |-> 1]

\* a query with a two-character residual returned fewer candidates than
\* the filters let through
C17_Witness ==
    /\ search.pc = "returned"
    /\ CharLength(search.semanticQuery) = 2
    /\ search.results # <<>>
    /\ Len(search.results) < Len(FilteredWithEmbedding)

\* a score dot / sqrt(squares) lies in the closed interval [0, 1]
InUnitInterval(score) ==
    /\ score.squares > 0
    /\ score.dot >= 0
    /\ score.dot * score.dot <= score.squares

\* C18: every result returned by searchCVs carries a similarity score in
\* [0, 1], whatever the query embedding and the stored embeddings are.
C18_ScoresInUnitInterval ==
    search.pc = "returned" =>
        \A k \in 1..Len(search.results) :
            InUnitInterval(search.results[k].score)

\* the calls of the request in slot o
CallsOf(o) == 1..Len(ops[o].calls)

\* C21: a failed cache lookup (Match.findOne rejecting) never rejects the
\* calculateMatchingScore call: the call goes on to the scoring service
\* and its request is not failed by the lookup error.
C21_LookupFailureFallsBack ==
    \A o \in OpIds : \A i \in CallsOf(o) :
        ops[o].calls[i].err = "lookup"
        => /\ ops[o].calls[i].pc \in {"miss", "done"}
           /\ ops[o].pc # "failed"

\* the calls of request o that settled fulfilled after the scoring service
\* answered and the write went through
Stored(o) ==
    {i \in CallsOf(o) : ops[o].calls[i].pc = "done" /\ ops[o].calls[i].scored}

Rejected(o) == {i \in CallsOf(o) : ops[o].calls[i].pc = "failed"}

\* C29: the list a bulk request returns after its fan-out is the stable
\* descending sort, cut to the limit, of the entries taken in counterpart
\* order: members, scores and the order of equal scores do not depend on
\* the order in which the calls settled.
C29_ResultIgnoresCompletionOrder ==
    \A o \in OpIds :
        (ops[o].pc = "returned" /\ ~ops[o].short /\ ops[o].calls # <<>>)
        => LET op == ops[o]
               inOrder == [k \in CallsOf(o) |->
                             [id |-> op.items[k].id,
                              score |-> op.calls[k].result.score,
                              matchDetails |-> op.calls[k].result.details,
                              fromCache |->
                                  FromCacheOrFalse(op.calls[k].result)]]
           IN /\ Len(op.result) = Min(op.limit, Len(inOrder))
              /\ \A a \in 1..Len(op.result) :
                    \E k \in CallsOf(o) : op.result[a] = inOrder[k]
              /\ \A a, b \in 1..Len(op.result) :
                    a < b =>
                      LET ka == CHOOSE k \in CallsOf(o) :
                                    inOrder[k].id = op.result[a].id
                          kb == CHOOSE k \in CallsOf(o) :
                                    inOrder[k].id = op.result[b].id
                      IN \/ op.result[a].score > op.result[b].score
                         \/ /\ op.result[a].score = op.result[b].score
                            /\ ka < kb
              /\ \A k \in CallsOf(o) :
                    (\A a \in 1..Len(op.result) :
                         op.result[a].id # inOrder[k].id)
                    => \A a \in 1..Len(op.result) :
                          \/ op.result[a].score > inOrder[k].score
                          \/ /\ op.result[a].score = inOrder[k].score
                             /\ (CHOOSE h \in CallsOf(o) :
                                    inOrder[h].id = op.result[a].id) < k

\* calls of equal score settled against their counterpart order and the
\* limit cut the list between them
C29_Witness ==
    /\ ops[1].pc = "returned"
    /\ ~ops[1].short
    /\ Len(ops[1].calls) = 3
    /\ ops[1].limit = 1
    /\ Len(completed[1]) = 3
    /\ completed[1][1] = 3
    /\ completed[1][2] = 1
    /\ \A i \in CallsOf(1) : ops[1].calls[i].result.score = 1

\* C30: a bulk request one of whose calls was rejected fails and returns
\* no list, and the match records written by its other calls stay in the
\* store with the scores those calls obtained.
C30_BulkFailsStoreKeepsRecords ==
    /\ [](\A o \in OpIds :
            Rejected(o) # {} =>
               /\ ops[o].pc = "failed"
               /\ ops[o].result = <<>>
               /\ \A i \in Stored(o) :
                     LET cv == CallCv(ops[o], i)
                         job == CallJob(ops[o], i)
                     IN /\ FindOne(cv.id, job.id) # 0
                        /\ DocAt(cv.id, job.id, FindOne(cv.id, job.id)).score
                              = ops[o].calls[i].result.score)
    /\ [][\A p \in Pairs : Len(matches'[p]) >= Len(matches[p])]_vars

\* a request failed on a rejected scoring call while another of its calls
\* has written its record
C30_Witness ==
    /\ ops[1].pc = "failed"
    /\ \E i \in Rejected(1) : ops[1].calls[i].err = "scoring"
    /\ Stored(1) # {}
    /\ \E i \in Stored(1) :
          matches[<<CallCv(ops[1], i).id, CallJob(ops[1], i).id>>] # <<>>

\* C28: no external call is retried.  In a run of processCVFile the vision
\* extraction, the text-mode extraction and the embedding call are each
\* issued at most once, and in a calculateMatchingScore call the scoring
\* service is called at most once; a failed call is an error of the stage
\* that issued it: the vision failure takes the text fallback or fails the
\* run, every other failure fails the run or the request.
C28_NoExternalCallRetried ==
    /\ pipe.visionCalls <= 1
    /\ pipe.textCalls <= 1
    /\ pipe.embedCalls <= 1
    /\ (pipe.visionCalls = 1 /\ ~pipe.visionOk)
          => \/ pipe.pc \in {"catch", "thrown"}
             \/ pipe.method = "text_fallback"
             \/ pipe.pc = "textFallback"
    /\ (pipe.embedCalls = 1 /\ ~pipe.embedOk)
          => pipe.pc \in {"catch", "thrown"} /\ pipe.err = "embedding"
    /\ (pipe.textCalls = 1 /\ pipe.pc \notin {"catch", "thrown"})
          => pipe.method \in {"text", "text_fallback"}
    /\ \A o \in OpIds : \A i \in CallsOf(o) :
          /\ ops[o].calls[i].scoringCalls <= 1
          /\ (ops[o].calls[i].scoringCalls = 1 /\ ~ops[o].calls[i].scored)
                => /\ ops[o].calls[i].pc = "failed"
                   /\ ops[o].calls[i].err = "scoring"
                   /\ ops[o].pc = "failed"

\* a scoring call has been rejected and its request has failed
C28_Witness ==
    \E i \in CallsOf(1) :
        /\ ops[1].calls[i].scoringCalls = 1
        /\ ops[1].calls[i].err = "scoring"
        /\ ops[1].pc = "failed"

\* an embedding call has been rejected and the run is in its catch block
EmbeddingCallFailed ==
    /\ pipe.embedCalls = 1
    /\ pipe.err = "embedding"
    /\ pipe.pc = "catch"

\* the iterations of the running batch that ended with the given outcome
Iterations(outcome) ==
    {k \in 1..Len(batch.log) : batch.log[k] = outcome}

\* C22: a failure while one CV is processed does not abort a batch.  In
\* processCVsInBatches / processBatch and in updateAllEmbeddings every CV
\* of the list is handled whatever happened to the CVs before it, the rows
\* of every scored CV are in the results, and every CV whose embedding was
\* computed and saved holds it.
C22_BatchIsolatesFailures ==
    batch.pc # "idle" =>
        /\ batch.pc = "thrown" => batch.log = <<>>
        /\ Len(batch.log) = batch.next - 1
        /\ batch.pc = "returned" => Len(batch.log) = Len(batch.cvs)
        /\ batch.kind = "scoring" =>
              /\ \A k \in Iterations("skipped") :
                    \E h \in 1..(k - 1) : batch.cvs[h] = batch.cvs[k]
              /\ \A k \in Iterations("ok") :
                    \E r \in 1..Len(batch.results \o batch.batchResults) :
                       (batch.results \o batch.batchResults)[r].cvId
                           = batch.cvs[k]
              /\ batch.pc = "returned" =>
                    /\ batch.batchResults = <<>>
                    /\ \A k \in Iterations("ok") :
                          \E r \in 1..Len(batch.results) :
                             batch.results[r].cvId = batch.cvs[k]
                    /\ \A r \in 1..Len(batch.results) :
                          \E k \in Iterations("ok") :
                             batch.results[r].cvId = batch.cvs[k]
        /\ batch.kind = "embeddings" =>
              /\ \A k \in Iterations("ok") :
                    cvCollection[batch.cvs[k]].embedding # NoEmbedding
              /\ \A k \in Iterations("failed") :
                    cvCollection[batch.cvs[k]].embedding = NoEmbedding

\* a scoring batch returned the rows of its last CV after an earlier CV of
\* the list had failed
C22_Witness ==
    /\ batch.pc = "returned"
    /\ batch.kind = "scoring"
    /\ Len(batch.cvs) = 3
    /\ batch.log = <<"ok", "failed", "ok">>
    /\ batch.cvs[3] # batch.cvs[1]
    /\ \E r \in 1..Len(batch.results) : batch.results[r].cvId = batch.cvs[3]

\* the embedding update went on after a failure
UpdateWentOnAfterFailure ==
    /\ batch.pc = "returned"
    /\ batch.kind = "embeddings"
    /\ batch.log = <<"failed", "ok">>

\* C23: isTextSufficient answers false exactly when the text, trimmed and
\* with every whitespace run collapsed to one space, is shorter than 50
\* characters or has fewer than 0.3 alphanumeric characters per character;
\* length 50 at ratio 0.3 is sufficient, and an empty or whitespace-only
\* text is not.
C23_SufficiencyThresholds ==
    textCheck.done =>
        LET m == Measure(textCheck.text) IN
        /\ textCheck.result = ~(m.clean < 50 \/ 10 * m.alnum < 3 * m.clean)
        /\ (m.clean = 50 /\ m.alnum = 15) => textCheck.result
        /\ (\A k \in 1..Len(textCheck.text) :
               textCheck.text[k].class = "space") => ~textCheck.result

\* a text padded with whitespace whose cleaned form has exactly 50
\* characters, 15 of them alphanumeric, was found sufficient
C23_Witness ==
    /\ textCheck.done
    /\ textCheck.result
    /\ Measure(textCheck.text).raw > 50
    /\ Measure(textCheck.text).clean = 50
    /\ Measure(textCheck.text).alnum = 15

\* the positions of the query a match covers (match.index and match[0])
Span(m) ==
    IF m.found THEN (m.last - Len(m.whole) + 1)..m.last ELSE {}

\* the positions of the query matched for each filter
FilterSpans(query) ==
    LET skills == SkillMatches(query) IN
    [gpa |-> Span(FirstMatch([k \in 1..Len(query) |->
                                 GpaMatchAt(query, k)])),
     company |-> Span(FirstMatch([k \in 1..Len(query) |->
                                     CompanyMatchAt(query, k)])),
     university |-> Span(FirstMatch([k \in 1..Len(query) |->
                                        UniversityMatchAt(query, k)])),
     skills |-> UNION {Span(skills[k]) : k \in 1..Len(skills)}]

\* C24: the patterns of parseSearchQuery never match text an earlier
\* pattern has consumed: no position of the query lies in the matches of
\* two different filters.
C24_NoWordInTwoFilters ==
    parsed.done =>
        LET spans == FilterSpans(parsed.query) IN
        \A f, g \in DOMAIN spans : f # g => spans[f] \cap spans[g] = {}

\* the place of a document in the filtered set
PlaceIn(filteredCVs, doc) ==
    CHOOSE k \in 1..Len(filteredCVs) : filteredCVs[k] = doc

\* the results are the best candidates under the query embedding q: each
\* carries its cosine similarity to q, they descend, equal scores keep the
\* order of the filtered set, and nothing left out beats a returned one
RankedUnder(q, filteredCVs, results) ==
    LET Sim(doc) == CalculateCosineSimilarity(q, doc.embedding)
        returned == {results[k].cv : k \in 1..Len(results)}
    IN
    /\ \A k \in 1..Len(results) :
          /\ \E j \in 1..Len(filteredCVs) : filteredCVs[j] = results[k].cv
          /\ results[k].score = Sim(results[k].cv)
    /\ \A k \in 1..(Len(results) - 1) :
          /\ ~ScoreLess(results[k].score, results[k + 1].score)
          /\ ~ScoreLess(results[k + 1].score, results[k].score) =>
                PlaceIn(filteredCVs, results[k].cv)
                   < PlaceIn(filteredCVs, results[k + 1].cv)
    /\ \A j \in 1..Len(filteredCVs) :
          filteredCVs[j] \notin returned =>
             \A k \in 1..Len(results) :
                ~ScoreLess(results[k].score, Sim(filteredCVs[j]))

\* the call returned from the hybrid branch
HybridReturned ==
    /\ search.pc = "returned"
    /\ CharLength(search.semanticQuery) >= MinSemanticLength
    /\ Len(search.filteredCVs) > 0

C26_NoUndefinedScore ==
    search.pc = "returned" =>
        \A k \in 1..Len(search.results) :
            search.results[k].score.squares > 0

\* calculateJobMatch has returned a result
JobMatchReturned == jobMatch.done /\ ~jobMatch.thrown

\* details has the four sub-objects and each has score and analysis only
FourSubObjects ==
    /\ DOMAIN jobMatch.details = SubObjectNames
    /\ \A name \in SubObjectNames :
          DOMAIN jobMatch.details[name] = {"score", "analysis"}

\* C27 (any alternate key, always a number and a string): the returned
\* details have exactly the sub-objects skills, experience, education and
\* overall, each a numeric score and a string analysis; in every
\* sub-object a number under any of match, relevance, fit or alignment
\* becomes the score when score is missing, a missing number becomes 0
\* and a missing analysis the empty string.
C27_AnyAlternateKeyMapped ==
    JobMatchReturned =>
        /\ FourSubObjects
        /\ \A name \in SubObjectNames :
              LET up == jobMatch.upstream[name]
                  out == jobMatch.details[name]
              IN
              /\ out.score.type = "number"
              /\ out.analysis.type = "string"
              /\ \A k \in AlternateKeys :
                    up["score"] = Undefined /\ up[k].type = "number"
                    => out.score = up[k]
              /\ (\A k \in {"score"} \cup AlternateKeys :
                     up[k].type # "number")
                 => out.score = JsonNumber(0)
              /\ up["analysis"] = Undefined => out.analysis = JsonString("")

\* the one alternate key read for each sub-object
AlternateOf ==
    [skills |-> "match", experience |-> "relevance",
     education |-> "alignment", overall |-> "fit"]

\* C27 (own alternate key, truthy values): the returned details have
\* exactly the four sub-objects, each with score and analysis only; the
\* score is the upstream score when that is truthy, otherwise the value
\* under the sub-object's own alternate key (skills.match,
\* experience.relevance, education.alignment, overall.fit) when that is
\* truthy, otherwise 0, the other alternate keys being ignored; the
\* analysis is the upstream analysis when truthy, otherwise ''. The
\* score is a number when the upstream score and own alternate are
\* numbers or missing, the analysis a string when the upstream analysis
\* is a string or missing.
C27_OwnAlternateKeyMapped ==
    JobMatchReturned =>
        /\ FourSubObjects
        /\ \A name \in SubObjectNames :
              LET up == jobMatch.upstream[name]
                  out == jobMatch.details[name]
                  own == up[AlternateOf[name]]
              IN
              /\ Truthy(up["score"]) => out.score = up["score"]
              /\ ~Truthy(up["score"]) /\ Truthy(own) => out.score = own
              /\ ~Truthy(up["score"]) /\ ~Truthy(own)
                 => out.score = JsonNumber(0)
              /\ Truthy(up["analysis"]) => out.analysis = up["analysis"]
              /\ ~Truthy(up["analysis"]) => out.analysis = JsonString("")
              /\ up["score"].type \in {"number", "undefined"}
                 /\ own.type \in {"number", "undefined"}
                 => out.score.type = "number"
              /\ up["analysis"].type \in {"string", "undefined"}
                 => out.analysis.type = "string"

\* experience came without score and analysis but with relevance 80, and
\* is returned with score 80 and an empty analysis
C27_Witness ==
    /\ JobMatchReturned
    /\ jobMatch.upstream["experience"]["score"] = Undefined
    /\ jobMatch.upstream["experience"]["analysis"] = Undefined
    /\ jobMatch.upstream["experience"]["relevance"] = JsonNumber(80)
    /\ jobMatch.details["experience"].score = JsonNumber(80)
    /\ jobMatch.details["experience"].analysis = JsonString("")

====
